---------------------------- MODULE Spec2Model ----------------------------
(***************************************************************************)
(* Model of the conversation orchestration loop of module/aiagent.py       *)
(* (AIAgent._stream_chat_with_tools, AIAgent.chat, AIAgent.execute_tool,   *)
(* redact_sensitive_data, estimate_tokens, _auto_chunk_large_result,       *)
(* _compress_messages_if_needed).                                          *)
(*                                                                         *)
(* Text is modelled as a run-length encoded sequence of character classes: *)
(* a string is a sequence of runs [c |-> class, n |-> count] in which no   *)
(* two adjacent runs share a class and no run is empty.  The classes are   *)
(*   "a"  alphanumeric character that is part of no sensitive term         *)
(*   "s"  alphanumeric character of a value stored under a sensitive key   *)
(*   "T","K"  the two lower-case letters of the sensitive term "TK"        *)
(*   "U","V"  their upper-case forms                                       *)
(*   "p"  printable character that is not alphanumeric (space, braces ...) *)
(*   "q"  the double quote,  "b"  the backslash,  "n"  the newline         *)
(*   "c"  a control character (not printable, not newline)                 *)
(***************************************************************************)
EXTENDS Integers, Sequences, FiniteSets, TLC

\* ------------------------------------------------------------------ text

Run(c, n) == [c |-> c, n |-> n]

E == << >>

\* canonical form: empty runs dropped, adjacent runs of one class merged
Norm(s) ==
    LET t == SelectSeq(s, LAMBDA r : r.n > 0)
        starts == { i \in DOMAIN t : i = 1 \/ t[i].c # t[i - 1].c }
        nth(j) == CHOOSE i \in starts : Cardinality({ x \in starts : x <= i }) = j
        last(i) == CHOOSE e \in i..Len(t) :
                     /\ \A x \in i..e : t[x].c = t[i].c
                     /\ e = Len(t) \/ t[e + 1].c # t[i].c
        RECURSIVE Sum(_, _)
        Sum(i, e) == IF i > e THEN 0 ELSE t[i].n + Sum(i + 1, e)
    IN [j \in 1..Cardinality(starts) |-> Run(t[nth(j)].c, Sum(nth(j), last(nth(j))))]

\* s + t, for texts in canonical form: only the runs that meet can merge
Cat(s, t) ==
    IF s = << >> THEN t
    ELSE IF t = << >> THEN s
    ELSE IF s[Len(s)].c = t[1].c
    THEN (SubSeq(s, 1, Len(s) - 1) \o << Run(t[1].c, s[Len(s)].n + t[1].n) >>) \o Tail(t)
    ELSE s \o t

Str(c, n) == IF n = 0 THEN << >> ELSE << Run(c, n) >>

\* len(text)
StrLen(s) ==
    LET RECURSIVE Sum(_, _)
        Sum(lo, hi) == IF lo > hi THEN 0
                       ELSE IF lo = hi THEN s[lo].n
                       ELSE Sum(lo, (lo + hi) \div 2) + Sum((lo + hi) \div 2 + 1, hi)
    IN Sum(1, Len(s))

RECURSIVE Take(_, _)
\* text[:k]
Take(s, k) ==
    IF s = << >> \/ k <= 0 THEN << >>
    ELSE IF Head(s).n >= k THEN << Run(Head(s).c, k) >>
    ELSE << Head(s) >> \o Take(Tail(s), k - Head(s).n)

\* some character of text belongs to one of the classes
HasCls(s, classes) == \E i \in DOMAIN s : s[i].c \in classes

\* str.isalnum() is true of these classes
Alnum == {"a", "s", "T", "K", "U", "V"}

LowerCls(c) == IF c = "U" THEN "T" ELSE IF c = "V" THEN "K" ELSE c

\* text.lower()
Lower(s) == Norm([i \in DOMAIN s |-> Run(LowerCls(s[i].c), s[i].n)])

\* sk in text, for the sensitive term sk = "TK" (text already lower-cased)
ContainsTerm(s) ==
    \E i \in DOMAIN s : i + 1 \in DOMAIN s /\ s[i].c = "T" /\ s[i + 1].c = "K"

\* the first index of a run of class cls, 0 when there is none
FirstOf(s, cls) ==
    IF \E i \in DOMAIN s : s[i].c = cls
    THEN CHOOSE i \in DOMAIN s : s[i].c = cls /\ \A j \in 1..(i - 1) : s[j].c # cls
    ELSE 0

\* text[k:]
Drop(s, k) ==
    LET RECURSIVE D(_, _)
        D(t, m) == IF t = << >> \/ m <= 0 THEN t
                   ELSE IF Head(t).n > m THEN << Run(Head(t).c, Head(t).n - m) >> \o Tail(t)
                   ELSE D(Tail(t), m - Head(t).n)
    IN D(s, k)

\* clean_utf8: keeps the printable characters and newline, carriage return, tab
clean_utf8(s) == Norm(SelectSeq(s, LAMBDA r : r.c # "c"))

\* estimate_tokens: int(len(text) / 2.5)
estimate_tokens(s) == (StrLen(s) * 2) \div 5

\* ------------------------------------------------------------ JSON values
\* One record shape for every value: t is the kind, s the text of a string or
\* literal, items the entries [k |-> key text, v |-> value] of a mapping, or of
\* a list (with empty keys).

JStr(s) == [t |-> "str", s |-> s, items |-> << >>]

JLit(s) == [t |-> "lit", s |-> s, items |-> << >>]

JMap(items) == [t |-> "map", s |-> << >>, items |-> items]

JList(items) == [t |-> "list", s |-> << >>, items |-> items]

KV(k, v) == [k |-> k, v |-> v]

JTrue == JLit(Str("a", 4))

JFalse == JLit(Str("a", 5))

\* what json.dumps writes for one run of characters inside a string
EscRun(r) ==
    IF r.c = "q" THEN [i \in 1..(2 * r.n) |-> Run(IF i % 2 = 1 THEN "b" ELSE "q", 1)]
    ELSE IF r.c = "n" THEN [i \in 1..(2 * r.n) |-> Run(IF i % 2 = 1 THEN "b" ELSE "a", 1)]
    ELSE IF r.c = "c" THEN [i \in 1..(2 * r.n) |-> IF i % 2 = 1 THEN Run("b", 1) ELSE Run("a", 5)]
    ELSE IF r.c = "b" THEN << Run("b", 2 * r.n) >>
    ELSE << r >>

\* the escaped form of the characters of a string
Esc(s) ==
    LET RECURSIVE Range(_, _)
        Range(lo, hi) == IF lo > hi THEN << >>
                         ELSE IF lo = hi THEN EscRun(s[lo])
                         ELSE Cat(Range(lo, (lo + hi) \div 2), Range((lo + hi) \div 2 + 1, hi))
    IN Range(1, Len(s))

Quoted(s) == Cat(Cat(<< Run("q", 1) >>, Esc(s)), << Run("q", 1) >>)

RECURSIVE json_dumps(_)
\* json.dumps(value, ensure_ascii=False)
json_dumps(v) ==
    LET RECURSIVE Items(_, _)
        Items(it, first) ==
            IF it = << >> THEN << >>
            ELSE Cat(Cat(Cat(IF first THEN << >> ELSE << Run("p", 2) >>,
                             IF v.t = "map" THEN Cat(Quoted(Head(it).k), << Run("p", 2) >>)
                             ELSE << >>),
                         json_dumps(Head(it).v)),
                     Items(Tail(it), FALSE))
    IN IF v.t = "str" THEN Quoted(v.s)
       ELSE IF v.t = "lit" THEN v.s
       ELSE Cat(Cat(<< Run("p", 1) >>, Items(v.items, TRUE)), << Run("p", 1) >>)

\* --------------------------------------------------------------- redaction

\* '***REDACTED***'
REDACTED == << Run("p", 3), Run("a", 8), Run("p", 3) >>

\* mutant: the key is compared without lower-casing it
KeySensitiveExactCase(k) == ContainsTerm(k)

\* k.lower() in sensitive_keys or any(sk in k.lower() for sk in sensitive_keys)
KeySensitive(k) == ContainsTerm(Lower(k))

\* the string branch of redact_sensitive_data
RedactStr(s) ==
    IF StrLen(s) > 50 /\ HasCls(s, Alnum) /\ ContainsTerm(Lower(s))
    THEN REDACTED
    ELSE clean_utf8(s)

RECURSIVE redact_sensitive_data(_)
redact_sensitive_data(d) ==
    IF d.t = "map"
    THEN JMap([i \in DOMAIN d.items |->
                 KV(d.items[i].k,
                    IF KeySensitive(d.items[i].k) THEN JStr(REDACTED)
                    ELSE redact_sensitive_data(d.items[i].v))])
    ELSE IF d.t = "list"
    THEN JList([i \in DOMAIN d.items |-> KV(E, redact_sensitive_data(d.items[i].v))])
    ELSE IF d.t = "str" THEN JStr(RedactStr(d.s))
    ELSE d

RECURSIVE Tainted(_)
\* the value shows a character of a secret (class "s") in a string or a key
Tainted(v) ==
    \/ HasCls(v.s, {"s"})
    \/ \E i \in DOMAIN v.items : HasCls(v.items[i].k, {"s"}) \/ Tainted(v.items[i].v)

\* ------------------------------------------------- tool-call fragments

\* one streamed fragment: tc.index, tc.id, tc.function.name, tc.function.arguments
\* (empty text stands for an absent or empty field)
Frag(idx, id, name, args) == [index |-> idx, id |-> id, name |-> name, arguments |-> args]

EmptyCall == [id |-> E, name |-> E, arguments |-> E]

\* the body of "for tc in delta.tool_calls" for one fragment
ApplyFragment(collected, tc) ==
    LET c0 == IF tc.index \in DOMAIN collected THEN collected
              ELSE collected @@ (tc.index :> EmptyCall)
        old == c0[tc.index]
    IN [c0 EXCEPT ![tc.index] =
          [id        |-> IF tc.id # E THEN tc.id ELSE old.id,
           name      |-> IF tc.name # E THEN tc.name ELSE old.name,
           arguments |-> Cat(old.arguments, tc.arguments)]]

RECURSIVE ApplyFragments(_, _)
ApplyFragments(collected, tcs) ==
    IF tcs = << >> THEN collected
    ELSE ApplyFragments(ApplyFragment(collected, Head(tcs)), Tail(tcs))

RECURSIVE SortedKeys(_)
\* sorted(collected_tool_calls.keys())
SortedKeys(S) ==
    IF S = {} THEN << >>
    ELSE LET m == CHOOSE x \in S : \A y \in S : x <= y
         IN << m >> \o SortedKeys(S \ {m})

\* tool_calls_list
ToolCallsList(collected) ==
    LET ks == SortedKeys(DOMAIN collected)
    IN [i \in DOMAIN ks |-> collected[ks[i]]]

\* ------------------------------------------------------------ bounds, inputs

\* largest configured max_iterations explored
MaxIterBound == 2

\* largest max_iterations explored together with the large tool results
SizeIterBound == 2

TermKey == << Run("T", 1), Run("K", 1) >>

UpperTermKey == << Run("a", 3), Run("p", 1), Run("U", 1), Run("V", 1) >>

Secret == Str("s", 6)

\* the tool names the backend asks for: "shell_execute", "shell_nope", "plain"
ShellExecute == << Run("a", 5), Run("p", 1), Run("a", 7) >>

ShellNope == << Run("a", 5), Run("p", 1), Run("a", 4) >>

NoSeparator == Str("a", 6)

\* "shell_script"
ShellScript == << Run("a", 5), Run("p", 1), Run("a", 6) >>

\* the loaded capability module "shell": its tool mapping {"execute", "script"}
\* and its TOOL_DEFINITIONS
ShellService == [name |-> Str("a", 5), tools |-> {Str("a", 7), Str("a", 6)},
                 defs |-> << ShellExecute, ShellScript >>]

\* "ssh_list_hosts": the function name holds the separator
SshListHosts ==
    << Run("a", 3), Run("p", 1), Run("a", 4), Run("p", 1), Run("a", 5) >>

\* "ssh_execute"
SshExecute == << Run("a", 3), Run("p", 1), Run("a", 7) >>

\* "list_hosts"
ListHosts == << Run("a", 4), Run("p", 1), Run("a", 5) >>

\* the loaded capability module "ssh": two entries of its tool mapping and of
\* its tool definitions
SshService == [name |-> Str("a", 3), tools |-> {ListHosts, Str("a", 7)},
               defs |-> << SshListHosts, SshExecute >>]

\* mcp_manager as handed to AIAgent.__init__: absent, empty, holding "shell",
\* or holding "shell" and "ssh"
MCPConfigs ==
    { [present |-> FALSE, services |-> << >>],
      [present |-> TRUE, services |-> << >>],
      [present |-> TRUE, services |-> << ShellService >>],
      [present |-> TRUE, services |-> << ShellService, SshService >>] }

\* argument mappings the backend sends, as JSON values
ArgValues == { JMap(<< >>), JMap(<< KV(TermKey, JStr(Secret)) >>) }

\* mutant: a string that does not parse is taken for the mapping sent last
ParseArgumentsSticky(text) ==
    IF \E v \in ArgValues : json_dumps(v) = text
    THEN CHOOSE v \in ArgValues : json_dumps(v) = text
    ELSE JMap(<< KV(TermKey, JStr(Secret)) >>)

\* json.loads of an argument string: the value it is the serialisation of;
\* anything else raises, and the caller falls back to {}
ParseArguments(text) ==
    IF \E v \in ArgValues : json_dumps(v) = text
    THEN CHOOSE v \in ArgValues : json_dumps(v) = text
    ELSE JMap(<< >>)

\* ------------------------------------------------------------ tool results

MAX_TOOL_RESULT_TOKENS == 80000

TruncateChars == 50000

PreviewChars == 500

\* a result mapping {"TK": <secret>, "output": <pad characters>}
ResultWithPad(pad) ==
    JMap(<< KV(TermKey, JStr(Secret)), KV(Str("a", 6), JStr(Str("a", pad))) >>)

\* the result of that shape whose serialisation is exactly total characters long
ResultOfLen(total) == ResultWithPad(total - StrLen(json_dumps(ResultWithPad(0))))

\* the longest serialisation whose token estimate does not exceed the limit
ThresholdLen == (5 * MAX_TOOL_RESULT_TOKENS + 4) \div 2

ScenarioLen == 12 * 10000

\* a small result that repeats the keyword arguments the tool was called with:
\* {"success": true, "api_UV": <secret>, "called": <arguments>}
SmallResult(args) ==
    JMap(<< KV(Str("a", 7), JTrue),
            KV(UpperTermKey, JStr(Secret)),
            KV(Str("a", 6), args) >>)

\* what a tool of the shell module returns, per workload
ToolReturns(w, args) ==
    IF w \in {"flow", "loop"} THEN { SmallResult(args) }
    ELSE { ResultOfLen(ScenarioLen), ResultOfLen(ThresholdLen), ResultOfLen(ThresholdLen + 1) }

\* ssh_list_hosts(): {"success": true, "hosts": []}
HostsResult == JMap(<< KV(Str("a", 7), JTrue), KV(Str("a", 5), JList(<< >>)) >>)

\* what the function func of a loaded module returns when called with the
\* keyword arguments args; list_hosts takes no argument and raises on any
ToolOutcome(func, w, args) ==
    IF func = ListHosts
    THEN (IF args = JMap(<< >>) THEN { HostsResult } ELSE {})
    ELSE ToolReturns(w, args)

\* {"error": <message>}; the messages differ by length only
ErrorResult(n) == JMap(<< KV(Str("a", 5), JStr(Str("a", n))) >>)

RECURSIVE Digits(_)
Digits(n) == IF n < 10 THEN 1 ELSE 1 + Digits(n \div 10)

\* "\n\n... [数据过大已截断，原始长度: {len} 字符]"
TruncationNote(len) ==
    << Run("n", 2), Run("p", 5), Run("a", 7), Run("p", 1), Run("a", 4), Run("p", 2),
       Run("a", Digits(len)), Run("p", 1), Run("a", 2), Run("p", 1) >>

\* mutant: the stand-in is flagged as chunked
auto_chunk_flagged_chunked(result_json) ==
    LET truncated == Cat(Take(result_json, TruncateChars), TruncationNote(StrLen(result_json)))
    IN JMap(<< KV(Str("a", 7), JTrue), KV(Str("a", 7), JTrue), KV(Str("a", 9), JTrue),
               KV(Str("a", 4), JStr(truncated)), KV(Str("a", 7), JStr(Str("a", 7))) >>)

\* AIAgent._auto_chunk_large_result
auto_chunk_large_result(result_json) ==
    LET truncated == Cat(Take(result_json, TruncateChars), TruncationNote(StrLen(result_json)))
    IN JMap(<< KV(Str("a", 7), JTrue), KV(Str("a", 7), JFalse), KV(Str("a", 9), JTrue),
               KV(Str("a", 4), JStr(truncated)), KV(Str("a", 7), JStr(Str("a", 7))) >>)

\* chunked_result.get("data", "")
DataOf(chunked) == chunked.items[4].v.s

\* mutant: the event carries the whole stand-in text
TruncatedPreviewWhole(chunked) ==
    JMap(<< KV(Str("a", 7), JStr(Str("a", 5))), KV(Str("a", 4), JStr(DataOf(chunked))) >>)

\* the result payload of the tool_result event on the truncation path
TruncatedPreview(chunked) ==
    JMap(<< KV(Str("a", 7), JStr(Str("a", 5))),
            KV(Str("a", 4), JStr(Take(DataOf(chunked), PreviewChars))) >>)

\* mutant: a result whose estimate equals the limit is truncated too
OversizedAtLimit(result_json) == estimate_tokens(result_json) >= MAX_TOOL_RESULT_TOKENS

\* result_tokens > MAX_TOOL_RESULT_TOKENS
Oversized(result_json) == estimate_tokens(result_json) > MAX_TOOL_RESULT_TOKENS

\* --------------------------------------------------------------- transcript

\* One record shape for every message; val is what json.loads(content) gives
\* for a tool-role message (the value the content is the serialisation of).
Msg(role, content, calls, call_id, val) ==
    [role |-> role, content |-> content, tool_calls |-> calls,
     tool_call_id |-> call_id, val |-> val]

NoVal == JLit(E)

\* the system prompt: 148 characters, three of them newlines
SystemPrompt == << Run("a", 145), Run("n", 3) >>

\* the instruction appended before the forced summary
SummaryInstruction == Str("a", 24)

\* the message as the JSON value json.dumps sees
MsgValue(m) ==
    LET roleKV == KV(Str("a", 4), JStr(Str("a", IF m.role = "assistant" THEN 9
                                             ELSE IF m.role = "system" THEN 6 ELSE 4)))
        contentKV == KV(Str("a", 7), JStr(m.content))
        callValue(c) ==
            JMap(<< KV(Str("a", 2), JStr(c.id)),
                    KV(Str("a", 4), JStr(Str("a", 8))),
                    KV(Str("a", 8), JMap(<< KV(Str("a", 4), JStr(c.name)),
                                            KV(Str("a", 9), JStr(c.arguments)) >>)) >>)
    IN IF m.role = "assistant" /\ m.tool_calls # << >>
       THEN JMap(<< roleKV, contentKV,
                    KV(Str("a", 10),
                       JList([i \in DOMAIN m.tool_calls |-> KV(E, callValue(m.tool_calls[i]))])) >>)
       ELSE IF m.role = "tool"
       THEN JMap(<< roleKV, KV(Str("a", 12), JStr(m.tool_call_id)), contentKV >>)
       ELSE JMap(<< roleKV, contentKV >>)

RECURSIVE SumTokens(_)
\* sum(estimate_tokens(json.dumps(m)) for m in messages)
SumTokens(msgs) ==
    IF msgs = << >> THEN 0
    ELSE estimate_tokens(json_dumps(MsgValue(Head(msgs)))) + SumTokens(Tail(msgs))

MAX_HISTORY_TOKENS == 80000

CompressOver == 10000

\* the summary object that replaces a large tool result
CompressedSummary(val) ==
    JMap(<< KV(Str("a", 10), JTrue),
            KV(Str("a", 4), JList(IF val.t = "map"
                                  THEN [i \in 1..(IF Len(val.items) < 10 THEN Len(val.items) ELSE 10)
                                          |-> KV(E, JStr(val.items[i].k))]
                                  ELSE << >>)),
            KV(Str("a", 4), JStr(Str("a", 5))) >>)

\* mutant: large tool results are summarised whatever the size of the transcript
compress_messages_always(msgs, max_tokens) ==
    [i \in DOMAIN msgs |->
        IF msgs[i].role = "tool" /\ estimate_tokens(msgs[i].content) > CompressOver
        THEN [msgs[i] EXCEPT !.content = json_dumps(CompressedSummary(msgs[i].val)),
                             !.val = CompressedSummary(msgs[i].val)]
        ELSE msgs[i]]

\* AIAgent._compress_messages_if_needed
compress_messages_if_needed(msgs, max_tokens) ==
    IF SumTokens(msgs) <= max_tokens THEN msgs
    ELSE [i \in DOMAIN msgs |->
            IF msgs[i].role = "tool" /\ estimate_tokens(msgs[i].content) > CompressOver
            THEN [msgs[i] EXCEPT !.content = json_dumps(CompressedSummary(msgs[i].val)),
                                 !.val = CompressedSummary(msgs[i].val)]
            ELSE msgs[i]]

\* estimate_tokens(json.dumps(messages, ensure_ascii=False))
TranscriptTokens(msgs) ==
    estimate_tokens(json_dumps(JList([i \in DOMAIN msgs |-> KV(E, MsgValue(msgs[i]))])))

\* ------------------------------------------------- capability registry: data
\* MCPServerManager.services is a dict from names to MCPService objects, kept
\* here as the sequence of the objects in insertion order.  A caller that got
\* an object from get_service holds the object itself, not a copy: what
\* unload() does to the object, the caller sees.

\* how many registry operations (load, unload, reload, check cycle) a run makes
MaxOps == 2

\* how many times a source file is written in a run
MaxEdits == 1

\* the names of the capability modules: "shell", "ssh"
ModuleNames == { ShellService.name, SshService.name }

\* the keys of the tool mapping that module name registers
FuncsOf(name) == IF name = ShellService.name THEN ShellService.tools ELSE SshService.tools

\* a source file: whether it exists, its st_mtime, which text it holds
\* (version), and whether executing that text succeeds (ok)
File(exists, mtime, version, ok) ==
    [exists |-> exists, mtime |-> mtime, version |-> version, ok |-> ok]

NoFile == File(FALSE, 0, 0, FALSE)

\* a load() that leaves last_modified as __init__ set it
LoadedServiceUnstamped(name, f) ==
    [name |-> name, funcs |-> FuncsOf(name), version |-> f.version,
     loaded |-> TRUE, last_modified |-> 0]

\* the MCPService object after a successful load() of the file f: its tools
\* are the functions of the text executed (funcs at that version)
LoadedService(name, f) ==
    [name |-> name, funcs |-> FuncsOf(name), version |-> f.version,
     loaded |-> TRUE, last_modified |-> f.mtime]

\* MCPService.unload: tools = {}, loaded = False, on the object itself
Unloaded(service) == [service EXCEPT !.funcs = {}, !.version = 0, !.loaded = FALSE]

\* a comparison that takes two ticks of st_mtime to notice a write
is_modified_coarse(service, f) == f.exists /\ f.mtime > service.last_modified + 1

\* MCPService.is_modified; a missing file makes stat() raise: False
is_modified(service, f) == f.exists /\ f.mtime > service.last_modified

\* MCPServerManager.discover_services
discover_services(fs) == { name \in ModuleNames : fs[name].exists }

\* no MCPService object
NoService == [name |-> E, funcs |-> {}, version |-> 0, loaded |-> FALSE,
              last_modified |-> 0]

\* one step of a registry operation still to run; cyc: the step belongs to a
\* check_and_reload_modified cycle, whose successes are collected
Ins(i, name, cyc) == [i |-> i, name |-> name, cyc |-> cyc]

NoSnap == [files |-> << >>, registry |-> << >>]

\* no registry operation is running
IdleMut == [op |-> "idle", name |-> E, todo |-> << >>, ret |-> FALSE,
            reloaded |-> << >>, pre |-> NoSnap]

\* no registry operation has returned.  lost: the module a reload_service
\* that returned False had found registered and loaded (E otherwise); files:
\* the directory as it was when the operation began
NoOp == [op |-> "none", lost |-> E, reloaded |-> << >>, files |-> << >>]

\* no dispatch has started.  held: the object get_service returned; alias:
\* the registry still maps the name to that very object; found: the version
\* whose function the lookup found; ran: the version whose function ran
IdleDisp == [pc |-> "idle", name |-> E, func |-> E, held |-> NoService,
             alias |-> FALSE, found |-> 0, outcome |-> "", ran |-> 0]

\* ------------------------------------------------------------------- state

VARIABLES
    workload,     \* which tool results the capability modules return in this run
    max_iterations, mcp_manager, knowledge_base,    \* AIAgent.__init__
    prompt,       \* the prompt of the invocation
    retrieval,    \* what knowledge_retrieve does when the invocation calls it
    consuming,    \* the consumer of chat() still asks for the next event
    twin,         \* a second invocation of chat() on the same AIAgent object
    event_loop,   \* the asyncio loop: the tool call that entered its function,
                  \* and the steps another invocation has taken on the loop
    token_stats,
    pc,           \* position of the invocation inside chat / _stream_chat_with_tools;
                  \* it ends "returned" (the return after the complete event of a
                  \* turn), "ended" (the generator ran off its end after the loop)
                  \* or "failed" (chat's except clause yielded the error event)
    messages, tools, iteration,
    retry, sleeps,                                  \* the retry loop, its backoffs
    collected_content, collected_tool_calls, thinking_content, say_content,
    in_thinking, has_tool_calls,
    tool_calls_list, k, arguments, result,          \* the "for tc_data" loop
    events,       \* what chat() has yielded so far
    stream_response,  \* fragment assembly: the tool-call fragments still to arrive
    delivered,        \* fragment assembly: the fragments consumed, in arrival order
    redact_in,        \* redaction: the structure handed to redact_sensitive_data
    passes,           \* redaction: the results of redacting it, then each result
    files,            \* registry: the source files of the services directory
    registry,         \* registry: MCPServerManager.services, in insertion order
    mut,              \* registry: the operation running on the manager, its steps
    disp,             \* registry: one execute_tool call running beside it
    returned,         \* registry: the operation that returned last: which, what a
                      \* cycle returned, the source files when it began
    ops,              \* registry: how many operations have returned
    edits             \* registry: how many times a source file was written

vars == << workload, max_iterations, mcp_manager, knowledge_base, prompt, retrieval, token_stats, pc, messages, tools,
           iteration, retry, sleeps, collected_content, collected_tool_calls,
           thinking_content, say_content, in_thinking, has_tool_calls,
           tool_calls_list, k, arguments, result, events, stream_response, delivered,
           redact_in, passes, files, registry, mut, disp, returned, ops, edits, consuming,
           event_loop, twin >>

turn_vars == << collected_content, collected_tool_calls, thinking_content, say_content,
                in_thinking, has_tool_calls >>

call_vars == << tool_calls_list, k, arguments, result >>

config_vars == << workload, max_iterations, mcp_manager, knowledge_base, prompt, retrieval >>

asm_vars == << stream_response, delivered >>

redact_vars == << redact_in, passes >>

registry_vars == << files, registry, mut, disp, returned, ops, edits >>

\* what the orchestration loop never touches
side_vars == << asm_vars, redact_vars, registry_vars, consuming, event_loop, twin >>

ZeroStats == [prompt_tokens |-> 0, completion_tokens |-> 0, total_tokens |-> 0,
              api_calls |-> 0, tool_calls |-> 0]

\* one event of the stream; unused fields are empty
Event(type, tool_name, data, content, think, say, stats) ==
    [type |-> type, tool_name |-> tool_name, data |-> data, content |-> content,
     think |-> think, say |-> say, stats |-> stats]

SayEvent(content) == Event("say", E, NoVal, content, E, E, << >>)

ThinkEvent(content) == Event("think", E, NoVal, content, E, E, << >>)

CompleteEvent(think, say, stats) == Event("complete", E, NoVal, E, think, say, << stats >>)

\* chat(): except Exception -> {"type": "error", ...}
ErrorEvent(stats) == Event("error", E, NoVal, Str("a", 1), E, E, << stats >>)

\* AIAgent.get_tools
get_tools(mgr) ==
    LET RECURSIVE All(_)
        All(svcs) == IF svcs = << >> THEN << >> ELSE Head(svcs).defs \o All(Tail(svcs))
    IN IF ~mgr.present THEN << >> ELSE All(mgr.services)

Prompts == { Str("a", 10) }

\* the knowledge_base section of the configuration
KnowledgeBase(enabled, auto_rag) == [enabled |-> enabled, auto_rag |-> auto_rag]

\* one call of knowledge_retrieve: it raises, or returns success and documents
\* (the content of each document)
Retrieval(raises, success, documents) ==
    [raises |-> raises, success |-> success, documents |-> documents]

NoRetrieval == Retrieval(FALSE, FALSE, << >>)

\* str.strip(), with the newline standing for every whitespace character
strip(s) ==
    LET t == IF s # << >> /\ s[1].c = "n" THEN Tail(s) ELSE s
    IN IF t # << >> /\ t[Len(t)].c = "n" THEN SubSeq(t, 1, Len(t) - 1) ELSE t

\* "参考以下知识库内容：\n"
RagHeader == << Run("a", 9), Run("p", 1), Run("n", 1) >>

\* "\n\n---\n用户问题："
RagQuestion == << Run("n", 2), Run("p", 3), Run("n", 1), Run("a", 4), Run("p", 1) >>

RECURSIVE docs_text(_)
\* "\n\n".join(f"[{i+1}] {d.get('content', '').strip()}" ...)
docs_text(documents) ==
    IF documents = << >> THEN E
    ELSE LET n == Len(documents)
             entry == Cat(<< Run("p", 1), Run("a", 1), Run("p", 2) >>, strip(documents[n]))
         IN IF n = 1 THEN entry
            ELSE Cat(Cat(docs_text(SubSeq(documents, 1, n - 1)), Str("n", 2)), entry)

\* mutant: the retrieved content replaces the question
AugmentedWithoutQuestion(documents, cleaned_prompt) ==
    Cat(RagHeader, docs_text(documents))

\* f"参考以下知识库内容：\n{docs_text}\n\n---\n用户问题：{cleaned_prompt}"
Augmented(documents, cleaned_prompt) ==
    Cat(Cat(Cat(RagHeader, docs_text(documents)), RagQuestion), cleaned_prompt)

\* kb.get("enabled") and kb.get("auto_rag") and cleaned_prompt.strip()
RetrievalCalled(kb, cleaned_prompt) ==
    kb.enabled /\ kb.auto_rag /\ strip(cleaned_prompt) # E

\* the user message: the cleaned prompt, augmented when retrieval was called
\* and returned success with documents; an exception is logged and leaves it
UserPrompt(kb, p, ret) ==
    LET cleaned_prompt == clean_utf8(p) IN
    IF RetrievalCalled(kb, cleaned_prompt) /\ ~ret.raises
       /\ ret.success /\ ret.documents # << >>
    THEN Augmented(ret.documents, cleaned_prompt)
    ELSE cleaned_prompt

\* the second invocation has not started: its position, its own transcript
\* (a local variable of its coroutine) and the statistics its terminal event
\* carried
IdleTwin == [pc |-> "idle", messages |-> << >>, stats |-> << >>]

\* no tool call has entered its function, no other invocation has stepped
IdleLoop == [entered |-> << 0, 0 >>, steps |-> 0]

\* the invocations in which retrieval plays no part, the consumer takes every
\* event and no other invocation shares the loop
RetrievalIdle ==
    /\ consuming = TRUE
    /\ event_loop = IdleLoop
    /\ twin = IdleTwin
    /\ knowledge_base = KnowledgeBase(FALSE, FALSE)
    /\ prompt \in Prompts
    /\ retrieval = NoRetrieval

\* the registry part of the state when the registry is not exercised
RegistryIdle ==
    /\ files = [name \in ModuleNames |-> NoFile]
    /\ registry = << >>
    /\ mut = IdleMut /\ disp = IdleDisp
    /\ returned = NoOp /\ ops = 0 /\ edits = 0

InitCommon ==
    /\ mcp_manager \in MCPConfigs
    /\ token_stats = ZeroStats
    /\ pc = "idle"
    /\ messages = << >> /\ tools = << >> /\ iteration = 0
    /\ retry = 0 /\ sleeps = << >>
    /\ collected_content = E /\ collected_tool_calls = << >>
    /\ thinking_content = E /\ say_content = E
    /\ in_thinking = FALSE /\ has_tool_calls = FALSE
    /\ tool_calls_list = << >> /\ k = 0 /\ arguments = JMap(<< >>) /\ result = NoVal
    /\ events = << >>
    /\ stream_response = << >> /\ delivered = << >>
    /\ redact_in = NoVal /\ passes = << >>
    /\ RegistryIdle

Init ==
    /\ workload = "flow"
    /\ max_iterations \in 0..MaxIterBound
    /\ RetrievalIdle
    /\ InitCommon

\* mutant: the body runs on whether or not its events are taken
ResumedAlways == TRUE

\* chat() and _stream_chat_with_tools are async generators: the body runs from
\* one yield to the next only while the consumer asks for the next event
Resumed == consuming

\* _stream_chat_with_tools up to the while loop: reset_token_stats, the
\* retrieval hook, the seed transcript, the catalog
StartChat ==
    /\ Resumed
    /\ pc = "idle"
    /\ messages' = << Msg("system", SystemPrompt, << >>, E, NoVal),
                      Msg("user", UserPrompt(knowledge_base, prompt, retrieval), << >>, E, NoVal) >>
    /\ token_stats' = ZeroStats
    /\ tools' = get_tools(mcp_manager)
    /\ iteration' = 0
    /\ pc' = "loop"
    /\ UNCHANGED << config_vars, side_vars, retry, sleeps, turn_vars, call_vars, events >>

\* mutant: the loop is entered once more at the cap
WithinCapInclusive(i, max) == i <= max

\* the loop condition: iteration < max_iterations
WithinCap(i, max) == i < max

\* while iteration < max_iterations: iteration += 1; compress; (else: leave the loop)
LoopHead ==
    /\ Resumed
    /\ pc = "loop"
    /\ IF WithinCap(iteration, max_iterations)
       THEN /\ iteration' = iteration + 1
            /\ messages' = compress_messages_if_needed(messages, MAX_HISTORY_TOKENS)
            /\ retry' = 0 /\ sleeps' = << >>
            /\ pc' = "request"
       ELSE /\ pc' = "cap"
            /\ UNCHANGED << iteration, messages, retry, sleeps >>
    /\ UNCHANGED << config_vars, side_vars, token_stats, tools, turn_vars, call_vars, events >>

\* mutant: a fixed delay of two seconds
BackoffFixed(attempt) == 2

\* 2 * (retry + 1)
Backoff(attempt) == 2 * (attempt + 1)

LastAttempt == 2

\* chat.completions.create returns: leave the retry loop, reset the turn's
\* accumulators, count the call
RequestOk ==
    /\ Resumed
    /\ pc = "request"
    /\ collected_content' = E /\ collected_tool_calls' = << >>
    /\ thinking_content' = E /\ say_content' = E
    /\ in_thinking' = FALSE /\ has_tool_calls' = FALSE
    /\ token_stats' = [token_stats EXCEPT !.api_calls = @ + 1,
                                          !.prompt_tokens = @ + TranscriptTokens(messages)]
    /\ pc' = "stream"
    /\ UNCHANGED << config_vars, side_vars, messages, tools, iteration, retry, sleeps, call_vars, events >>

\* chat.completions.create raises: back off and retry, or re-raise on the
\* last attempt, which chat() turns into the error event
RequestFail ==
    /\ Resumed
    /\ pc = "request"
    /\ IF retry = LastAttempt
       THEN /\ events' = Append(events, ErrorEvent(token_stats))
            /\ pc' = "failed"
            /\ UNCHANGED << retry, sleeps >>
       ELSE /\ sleeps' = Append(sleeps, Backoff(retry))
            /\ retry' = retry + 1
            /\ UNCHANGED << pc, events >>
    /\ UNCHANGED << config_vars, side_vars, token_stats, messages, tools, iteration, turn_vars, call_vars >>

\* ------------------------------------------------------- stream consumption
\* The reasoning markers "<think>" and "</think>" are one symbol each in the
\* text model: class "O" and class "C".

Delta(tcs, content) == [tool_calls |-> tcs, content |-> content]

\* content.replace("<think>", "")
RemoveOpen(s) == Norm(SelectSeq(s, LAMBDA r : r.c # "O"))

\* text after the first character of class cls
AfterFirst(s, cls) ==
    LET i == FirstOf(s, cls)
    IN (IF s[i].n > 1 THEN << Run(cls, s[i].n - 1) >> ELSE << >>) \o SubSeq(s, i + 1, Len(s))

\* text before the first character of class cls (all of it when there is none)
BeforeFirst(s, cls) ==
    IF FirstOf(s, cls) = 0 THEN s ELSE SubSeq(s, 1, FirstOf(s, cls) - 1)

TurnStart == [cc |-> E, ctc |-> << >>, think |-> E, say |-> E,
              in_thinking |-> FALSE, has |-> FALSE, out |-> << >>]

\* the "if delta.content" block of the stream loop
ApplyContent(st, raw) ==
    LET st1 == [st EXCEPT !.cc = Cat(st.cc, raw)]
        opened == HasCls(raw, {"O"})
        content == IF opened THEN RemoveOpen(raw) ELSE raw
        st2 == IF opened THEN [st1 EXCEPT !.in_thinking = TRUE] ELSE st1
    IN IF HasCls(content, {"C"})
       THEN LET part0 == BeforeFirst(content, "C")
                part1 == BeforeFirst(AfterFirst(content, "C"), "C")
            IN [st2 EXCEPT !.in_thinking = FALSE,
                           !.think = Cat(@, part0),
                           !.say = Cat(@, part1),
                           !.out = IF part1 # E THEN Append(@, SayEvent(part1)) ELSE @]
       ELSE IF st2.in_thinking
       THEN [st2 EXCEPT !.think = Cat(@, content), !.out = Append(@, ThinkEvent(content))]
       ELSE [st2 EXCEPT !.say = Cat(@, content), !.out = Append(@, SayEvent(content))]

\* one iteration of "async for chunk in stream_response"
ApplyDelta(st, d) ==
    LET st1 == IF d.tool_calls # << >>
               THEN [st EXCEPT !.has = TRUE, !.ctc = ApplyFragments(@, d.tool_calls)]
               ELSE st
    IN IF d.content # E THEN ApplyContent(st1, d.content) ELSE st1

RECURSIVE ConsumeDeltas(_, _)
ConsumeDeltas(st, ds) ==
    IF ds = << >> THEN st ELSE ConsumeDeltas(ApplyDelta(st, Head(ds)), Tail(ds))

\* ------------------------------------------------- what the backend streams

CallId(i) == Str("a", 4 + i)

\* '{"TK": "ssssss"}'
SecretArgs == json_dumps(JMap(<< KV(TermKey, JStr(Secret)) >>))

TextScript == << Delta(<< >>, Str("a", 3)), Delta(<< >>, Str("a", 2)) >>

ThinkScript == << Delta(<< >>, << Run("O", 1), Run("a", 2) >>),
                  Delta(<< >>, << Run("a", 1), Run("C", 1), Run("a", 4) >>) >>

OneCallScript ==
    << Delta(<< Frag(0, CallId(1), ShellExecute, Take(SecretArgs, 7)) >>, E),
       Delta(<< Frag(0, E, E, Drop(SecretArgs, 7)) >>, E) >>

TwoCallScript ==
    << Delta(<< Frag(0, CallId(1), ShellExecute, Take(SecretArgs, 7)),
                Frag(1, CallId(2), ShellNope, E) >>, Str("a", 3)),
       Delta(<< Frag(1, E, E, json_dumps(JMap(<< >>))),
                Frag(0, E, E, Drop(SecretArgs, 7)) >>, E) >>

\* a name without separator, then a call whose argument string is cut short
OddCallScript ==
    << Delta(<< Frag(1, CallId(3), ShellExecute, Take(SecretArgs, 7)) >>, E),
       Delta(<< Frag(0, CallId(4), NoSeparator, json_dumps(JMap(<< >>))) >>, E) >>

\* a call to "ssh_list_hosts", loaded or not, then a call to "shell_execute"
QualifiedCallScript ==
    << Delta(<< Frag(0, CallId(5), SshListHosts, json_dumps(JMap(<< >>))),
                Frag(1, CallId(6), ShellExecute, SecretArgs) >>, E) >>

\* a call to "ssh_execute"
SshCallScript ==
    << Delta(<< Frag(0, CallId(7), SshExecute, json_dumps(JMap(<< >>))) >>, E) >>

\* the responses a backend can stream: tool calls only when a catalog was sent;
\* the runs that share the event loop add the call to "ssh_execute"
Scripts(catalog) ==
    IF catalog = << >> THEN { TextScript, ThinkScript }
    ELSE { TextScript, ThinkScript, OneCallScript, TwoCallScript, OddCallScript,
           QualifiedCallScript }
         \cup (IF workload = "loop" THEN { SshCallScript } ELSE {})

\* the stream of the forced summary carries text only
FinalScripts == { TextScript }

\* ----------------------------------------------------------------- dispatch

\* mutant: the name is split at its last separator
SplitAtLastSeparator(tool_name) ==
    LET ps == { i \in DOMAIN tool_name : tool_name[i].c = "p" } IN
    IF ps = {} THEN << tool_name >>
    ELSE LET last == CHOOSE i \in ps : \A j \in ps : j <= i
         IN << SubSeq(tool_name, 1, last - 1), SubSeq(tool_name, last + 1, Len(tool_name)) >>

\* tool_name.split('_', 1)
SplitName(tool_name) ==
    IF FirstOf(tool_name, "p") = 0 THEN << tool_name >>
    ELSE << BeforeFirst(tool_name, "p"), AfterFirst(tool_name, "p") >>

\* mcp_manager.get_service(name): the services of that name (none or one)
get_service(mgr, name) == { mgr.services[i] : i \in { j \in DOMAIN mgr.services : mgr.services[j].name = name } }

\* AIAgent.execute_tool: the results the call can return
execute_tool(mgr, tool_name, args, w) ==
    IF ~mgr.present THEN { ErrorResult(1) }
    ELSE LET parts == SplitName(tool_name) IN
         IF Len(parts) < 2 THEN { ErrorResult(2) }
         ELSE IF get_service(mgr, parts[1]) = {} THEN { ErrorResult(3) }
         ELSE IF \A svc \in get_service(mgr, parts[1]) : parts[2] \notin svc.tools
         THEN { ErrorResult(4) }
         ELSE ToolOutcome(parts[2], w, args) \cup { ErrorResult(5) }

ProcessInfoEvent == Event("process_info", E, NoVal, Str("a", 12), E, E, << >>)

ToolCallEvent(name, args) == Event("tool_call", name, args, E, E, E, << >>)

ToolResultEvent(name, payload) == Event("tool_result", name, payload, E, E, E, << >>)

\* mutant: the turn ends without yielding its complete event
TurnCompletionMissing(st, stats) == << >>

\* the events of a turn that asked for no tool: the one complete event
TurnCompletion(st, stats) == << CompleteEvent(st.think, st.say, stats) >>

\* the end of the stream loop: "async for" is exhausted, then either the
\* assistant message with the requests is appended, or the turn completes
ConsumeStream ==
    /\ Resumed
    /\ pc = "stream"
    /\ \E script \in Scripts(tools) :
         LET st == ConsumeDeltas(TurnStart, script) IN
         /\ collected_content' = st.cc /\ collected_tool_calls' = st.ctc
         /\ thinking_content' = st.think /\ say_content' = st.say
         /\ in_thinking' = st.in_thinking /\ has_tool_calls' = st.has
         /\ IF st.has /\ st.ctc # << >>
            THEN /\ tool_calls_list' = ToolCallsList(st.ctc)
                 /\ messages' = Append(messages,
                                   Msg("assistant", st.cc, ToolCallsList(st.ctc), E, NoVal))
                 /\ k' = 1
                 /\ events' = events \o st.out
                 /\ pc' = "call"
                 /\ UNCHANGED token_stats
            ELSE LET stats == [token_stats EXCEPT
                                 !.completion_tokens = @ + estimate_tokens(st.cc),
                                 !.total_tokens = token_stats.prompt_tokens
                                      + token_stats.completion_tokens + estimate_tokens(st.cc)]
                 IN /\ token_stats' = stats
                    /\ events' = (events \o st.out) \o TurnCompletion(st, stats)
                    /\ pc' = "returned"
                    /\ UNCHANGED << messages, tool_calls_list, k >>
    /\ UNCHANGED << config_vars, side_vars, tools, iteration, retry, sleeps, arguments, result >>

\* the stream raises after some deltas: chat() yields the error event
StreamFail ==
    /\ Resumed
    /\ pc = "stream"
    /\ \E script \in Scripts(tools) : \E n \in 0..Len(script) :
         LET st == ConsumeDeltas(TurnStart, SubSeq(script, 1, n)) IN
         /\ collected_content' = st.cc /\ collected_tool_calls' = st.ctc
         /\ thinking_content' = st.think /\ say_content' = st.say
         /\ in_thinking' = st.in_thinking /\ has_tool_calls' = st.has
         /\ events' = (events \o st.out) \o << ErrorEvent(token_stats) >>
    /\ pc' = "failed"
    /\ UNCHANGED << config_vars, side_vars, token_stats, messages, tools, iteration, retry, sleeps, call_vars >>

\* for tc_data in tool_calls_list: parse the arguments, count, yield tool_call
EmitToolCall ==
    /\ Resumed
    /\ pc = "call"
    /\ LET tc == tool_calls_list[k]
           args == ParseArguments(tc.arguments)
       IN /\ arguments' = args
          /\ events' = Append(events, ToolCallEvent(tc.name, redact_sensitive_data(args)))
    /\ token_stats' = [token_stats EXCEPT !.tool_calls = @ + 1]
    /\ pc' = "exec"
    /\ UNCHANGED << config_vars, side_vars, messages, tools, iteration, retry, sleeps, turn_vars,
                    tool_calls_list, k, result >>

\* mutant: a result with an "error" entry leaves an empty tool-role message
AfterDispatchBlanksErrors(tc, res) ==
    [out |-> << ToolResultEvent(tc.name, redact_sensitive_data(res)) >>,
     msg |-> IF res.items[1].k = Str("a", 5) THEN Msg("tool", E, << >>, tc.id, NoVal)
             ELSE Msg("tool", json_dumps(res), << >>, tc.id, res)]

\* mutant: the transcript receives the redacted copy of the result
AfterDispatchRedactsTranscript(tc, res) ==
    [out |-> << ToolResultEvent(tc.name, redact_sensitive_data(res)) >>,
     msg |-> Msg("tool", json_dumps(redact_sensitive_data(res)), << >>, tc.id,
                 redact_sensitive_data(res))]

\* mutant: a result with an "error" entry is appended but not surfaced
AfterDispatchHidesErrors(tc, res) ==
    LET result_json == json_dumps(res)
    IN [out |-> IF res.items[1].k = Str("a", 5) THEN << >>
                ELSE << ToolResultEvent(tc.name, redact_sensitive_data(res)) >>,
        msg |-> Msg("tool", result_json, << >>, tc.id, res)]

\* mutant: the notice of truncation is yielded after the result it announces
AfterDispatchInfoLast(tc, res) ==
    LET result_json == json_dumps(res)
        chunked == auto_chunk_large_result(result_json)
    IN IF Oversized(result_json)
       THEN [out |-> << ToolResultEvent(tc.name, TruncatedPreview(chunked)), ProcessInfoEvent >>,
             msg |-> Msg("tool", json_dumps(chunked), << >>, tc.id, chunked)]
       ELSE [out |-> << ToolResultEvent(tc.name, redact_sensitive_data(res)) >>,
             msg |-> Msg("tool", result_json, << >>, tc.id, res)]

\* the events and the tool-role message that follow the dispatch of one call
AfterDispatch(tc, res) ==
    LET result_json == json_dumps(res)
        chunked == auto_chunk_large_result(result_json)
    IN IF Oversized(result_json)
       THEN [out |-> << ProcessInfoEvent, ToolResultEvent(tc.name, TruncatedPreview(chunked)) >>,
             msg |-> Msg("tool", json_dumps(chunked), << >>, tc.id, chunked)]
       ELSE [out |-> << ToolResultEvent(tc.name, redact_sensitive_data(res)) >>,
             msg |-> Msg("tool", result_json, << >>, tc.id, res)]

\* execute_tool returns: yield (process_info and) tool_result, append the
\* tool-role message, go on with the next call or "continue" the while loop
ToolReturn ==
    /\ Resumed
    /\ pc = "exec"
    /\ \E res \in execute_tool(mcp_manager, tool_calls_list[k].name, arguments, workload) :
         LET after == AfterDispatch(tool_calls_list[k], res) IN
         /\ result' = res
         /\ events' = events \o after.out
         /\ messages' = Append(messages, after.msg)
    /\ k' = k + 1
    /\ pc' = IF k = Len(tool_calls_list) THEN "loop" ELSE "call"
    /\ UNCHANGED << config_vars, side_vars, token_stats, tools, iteration, retry, sleeps, turn_vars,
                    tool_calls_list, arguments >>

\* ------------------------------------------------------------ iteration cap

\* "（已达到最大工具调用次数）"
FallbackSay == << Run("p", 1), Run("a", 11), Run("p", 1) >>

RECURSIVE FinalSays(_)
\* the say events of the forced summary: one per delta that carries content
FinalSays(ds) ==
    IF ds = << >> THEN << >>
    ELSE (IF Head(ds).content # E THEN << SayEvent(Head(ds).content) >> ELSE << >>)
         \o FinalSays(Tail(ds))

RECURSIVE FinalContent(_)
FinalContent(ds) == IF ds = << >> THEN E ELSE Cat(Head(ds).content, FinalContent(Tail(ds)))

\* the catalog decides whether the summary is asked for at all ("if tools:")
SummaryWanted(catalog) == catalog # << >>

\* after the loop, with a catalog: the summary request and its stream succeed
ForcedSummaryOk ==
    /\ Resumed
    /\ pc = "cap" /\ SummaryWanted(tools)
    /\ messages' = Append(messages, Msg("user", SummaryInstruction, << >>, E, NoVal))
    /\ \E script \in FinalScripts :
         LET final == FinalContent(script)
             stats == [token_stats EXCEPT
                         !.completion_tokens = @ + estimate_tokens(final),
                         !.total_tokens = token_stats.prompt_tokens
                              + token_stats.completion_tokens + estimate_tokens(final)]
         IN /\ token_stats' = stats
            /\ events' = (events \o FinalSays(script)) \o << CompleteEvent(E, final, stats) >>
    /\ pc' = "ended"
    /\ UNCHANGED << config_vars, side_vars, tools, iteration, retry, sleeps, turn_vars, call_vars >>

\* after the loop, with a catalog: the request or its stream raises, and the
\* except branch yields the complete event with the fallback text
ForcedSummaryFail ==
    /\ Resumed
    /\ pc = "cap" /\ SummaryWanted(tools)
    /\ messages' = Append(messages, Msg("user", SummaryInstruction, << >>, E, NoVal))
    /\ \E script \in FinalScripts : \E n \in 0..Len(script) :
         events' = (events \o FinalSays(SubSeq(script, 1, n)))
                     \o << CompleteEvent(E, FallbackSay, token_stats) >>
    /\ pc' = "ended"
    /\ UNCHANGED << config_vars, side_vars, token_stats, tools, iteration, retry, sleeps, turn_vars, call_vars >>

\* after the loop, without a catalog: the generator just ends
CapWithoutCatalog ==
    /\ Resumed
    /\ pc = "cap" /\ ~SummaryWanted(tools)
    /\ pc' = "ended"
    /\ UNCHANGED << config_vars, side_vars, token_stats, messages, tools, iteration, retry, sleeps,
                    turn_vars, call_vars, events >>

Next ==
    \/ StartChat
    \/ LoopHead
    \/ RequestOk
    \/ RequestFail
    \/ ConsumeStream
    \/ StreamFail
    \/ EmitToolCall
    \/ ToolReturn
    \/ ForcedSummaryOk
    \/ ForcedSummaryFail
    \/ CapWithoutCatalog

Spec == Init /\ [][Next]_vars

\* the runs that explore the sizes of tool results
InitSize ==
    /\ workload = "size"
    /\ max_iterations \in 0..SizeIterBound
    /\ RetrievalIdle
    /\ InitCommon

SpecSize == InitSize /\ [][Next]_vars

\* the consumer stops after an event: it never asks for the next one
StopConsuming ==
    /\ consuming
    /\ events # << >>
    /\ pc \notin {"returned", "ended", "failed"}
    /\ consuming' = FALSE
    /\ UNCHANGED << config_vars, event_loop, twin, asm_vars, redact_vars, registry_vars, token_stats, pc,
                    messages, tools, iteration, retry, sleeps, turn_vars, call_vars, events >>

NextConsumer ==
    \/ StartChat
    \/ LoopHead
    \/ RequestOk
    \/ RequestFail
    \/ ConsumeStream
    \/ StreamFail
    \/ EmitToolCall
    \/ ToolReturn
    \/ ForcedSummaryOk
    \/ ForcedSummaryFail
    \/ CapWithoutCatalog
    \/ StopConsuming

\* the runs whose consumer may stop
SpecConsumer == Init /\ [][NextConsumer]_vars

\* ------------------------------------------ two invocations on one event loop
\* Every invocation is a coroutine of the one asyncio loop of the process: a
\* step of an invocation runs on the loop's thread, and no other step runs
\* until it reaches an await that suspends.

\* steps of the other invocation explored
MaxOtherSteps == 2

\* the dispatch in progress has entered the tool function
Executing == pc = "exec" /\ event_loop.entered = << iteration, k >>

\* execute_tool resolves the name to a function of the loaded module "ssh"
ReachesSsh(mgr, tool_name) ==
    /\ mgr.present
    /\ Len(SplitName(tool_name)) = 2
    /\ SplitName(tool_name)[1] = SshService.name
    /\ \E svc \in get_service(mgr, SshService.name) : SplitName(tool_name)[2] \in svc.tools

\* MCPService.call_tool awaits a coroutine function and calls any other
\* function directly; the functions of ssh.py are coroutine functions whose
\* body calls ssh_manager (paramiko: connect, exec_command, read) without an
\* await.  Either way the function runs on the loop's thread until it returns.
\* The functions of shell.py await asyncio subprocesses and leave the thread.
HoldsLoopThread == Executing /\ ReachesSsh(mcp_manager, tool_calls_list[k].name)

\* await self.execute_tool(...): the call reaches the tool function
EnterTool ==
    /\ Resumed
    /\ pc = "exec" /\ ~Executing
    /\ event_loop' = [event_loop EXCEPT !.entered = << iteration, k >>]
    /\ UNCHANGED << config_vars, asm_vars, redact_vars, registry_vars, consuming, twin, token_stats,
                    pc, messages, tools, iteration, retry, sleeps, turn_vars, call_vars, events >>

\* the tool function returns and the dispatch goes on
ToolReturnOnLoop == Executing /\ ToolReturn

\* another invocation takes a step (receives a delta, emits an event,
\* dispatches a tool): the loop runs it when its thread is free
OtherStep ==
    /\ ~HoldsLoopThread
    /\ event_loop.steps < MaxOtherSteps
    /\ event_loop' = [event_loop EXCEPT !.steps = @ + 1]
    /\ UNCHANGED << config_vars, asm_vars, redact_vars, registry_vars, consuming, twin, token_stats,
                    pc, messages, tools, iteration, retry, sleeps, turn_vars, call_vars, events >>

InitLoop ==
    /\ workload = "loop"
    /\ max_iterations \in 0..1
    /\ RetrievalIdle
    /\ InitCommon

NextLoop ==
    \/ StartChat
    \/ LoopHead
    \/ RequestOk
    \/ RequestFail
    \/ ConsumeStream
    \/ StreamFail
    \/ EmitToolCall
    \/ EnterTool
    \/ ToolReturnOnLoop
    \/ ForcedSummaryOk
    \/ ForcedSummaryFail
    \/ CapWithoutCatalog
    \/ OtherStep

SpecLoop == InitLoop /\ [][NextLoop]_vars

\* ------------------------------------------ two invocations on one AIAgent
\* app.py builds one AIAgent and router.py hands it to every request:
\* invocations that overlap run chat() on the same object.  The transcript is
\* a local variable of each coroutine; self.token_stats is the object's.  The
\* second invocation is followed through a turn that asks for no tool.

\* the prompt of the second invocation
TwinPrompt == Str("a", 11)

\* the second invocation up to the loop: reset_token_stats, the seed transcript
TwinStart ==
    /\ twin.pc = "idle"
    /\ max_iterations > 0
    /\ token_stats' = ZeroStats
    /\ twin' = [twin EXCEPT !.pc = "request",
                            !.messages = << Msg("system", SystemPrompt, << >>, E, NoVal),
                                            Msg("user", clean_utf8(TwinPrompt), << >>, E, NoVal) >>]
    /\ UNCHANGED << config_vars, asm_vars, redact_vars, registry_vars, consuming, event_loop,
                    pc, messages, tools, iteration, retry, sleeps, turn_vars, call_vars, events >>

\* its model request returns: api_calls and prompt_tokens are counted
TwinRequest ==
    /\ twin.pc = "request"
    /\ token_stats' = [token_stats EXCEPT !.api_calls = @ + 1,
                                          !.prompt_tokens = @ + TranscriptTokens(twin.messages)]
    /\ twin' = [twin EXCEPT !.pc = "stream"]
    /\ UNCHANGED << config_vars, asm_vars, redact_vars, registry_vars, consuming, event_loop,
                    pc, messages, tools, iteration, retry, sleeps, turn_vars, call_vars, events >>

\* its stream ends without a tool call: the totals are set and the complete
\* event carries a copy of self.token_stats
TwinComplete ==
    /\ twin.pc = "stream"
    /\ \E script \in { TextScript, ThinkScript } :
         LET st == ConsumeDeltas(TurnStart, script)
             stats == [token_stats EXCEPT
                         !.completion_tokens = @ + estimate_tokens(st.cc),
                         !.total_tokens = token_stats.prompt_tokens
                                          + token_stats.completion_tokens + estimate_tokens(st.cc)]
         IN /\ token_stats' = stats
            /\ twin' = [twin EXCEPT !.pc = "done", !.stats = << stats >>]
    /\ UNCHANGED << config_vars, asm_vars, redact_vars, registry_vars, consuming, event_loop,
                    pc, messages, tools, iteration, retry, sleeps, turn_vars, call_vars, events >>

InitShared ==
    /\ workload = "flow"
    /\ max_iterations \in 0..1
    /\ RetrievalIdle
    /\ InitCommon

NextShared ==
    \/ StartChat
    \/ LoopHead
    \/ RequestOk
    \/ RequestFail
    \/ ConsumeStream
    \/ StreamFail
    \/ EmitToolCall
    \/ ToolReturn
    \/ ForcedSummaryOk
    \/ ForcedSummaryFail
    \/ CapWithoutCatalog
    \/ TwinStart
    \/ TwinRequest
    \/ TwinComplete

SpecShared == InitShared /\ [][NextShared]_vars

\* the prompts of the runs that exercise the retrieval hook: plain, empty,
\* blank, and one with a control character and a trailing newline
RagPrompts == { Str("a", 10), E, Str("n", 2), << Run("c", 1), Run("a", 3), Run("n", 1) >> }

\* what knowledge_retrieve can do: raise; report failure; succeed with no
\* document, with one, with two (one of them padded with whitespace)
Retrievals ==
    { Retrieval(TRUE, FALSE, << >>), NoRetrieval, Retrieval(FALSE, TRUE, << >>),
      Retrieval(FALSE, TRUE, << Str("a", 5) >>),
      Retrieval(FALSE, TRUE, << << Run("n", 1), Run("a", 4), Run("n", 2) >>, Str("a", 3) >>) }

\* the runs that exercise the retrieval hook
InitRag ==
    /\ workload = "flow"
    /\ max_iterations \in 0..1
    /\ consuming = TRUE
    /\ event_loop = IdleLoop
    /\ twin = IdleTwin
    /\ knowledge_base \in { KnowledgeBase(e, a) : e \in BOOLEAN, a \in BOOLEAN }
    /\ prompt \in RagPrompts
    /\ retrieval \in IF knowledge_base.enabled /\ knowledge_base.auto_rag
                     THEN Retrievals ELSE { NoRetrieval }
    /\ InitCommon

SpecRag == InitRag /\ [][Next]_vars

\* ------------------------------------------------------- fragment assembly
\* The stream loop's handling of tool-call fragments, one fragment a step, over
\* every short stream of fragments.

\* longest stream of fragments explored
MaxFrags == 3

\* the fragments a stream is made of: a name in two pieces, an argument
\* string in two slices, a whole name, an empty function, a second index
FragmentPieces ==
    { Frag(0, CallId(1), Str("a", 5), E),
      Frag(0, E, << Run("p", 1), Run("a", 7) >>, Take(SecretArgs, 7)),
      Frag(0, E, E, Drop(SecretArgs, 7)),
      Frag(0, CallId(1), ShellExecute, E),
      Frag(0, E, E, E),
      Frag(1, CallId(2), ShellScript, json_dumps(JMap(<< >>))),
      Frag(1, E, E, Take(SecretArgs, 7)) }

FragmentStreams ==
    UNION { [1..n -> FragmentPieces] : n \in 1..MaxFrags }

InitAsm ==
    /\ workload = "asm"
    /\ max_iterations = 1
    /\ RetrievalIdle
    /\ mcp_manager = [present |-> TRUE, services |-> << ShellService >>]
    /\ token_stats = [ZeroStats EXCEPT !.api_calls = 1]
    /\ pc = "stream"
    /\ messages = << >> /\ tools = get_tools(mcp_manager) /\ iteration = 1
    /\ retry = 0 /\ sleeps = << >>
    /\ collected_content = E /\ collected_tool_calls = << >>
    /\ thinking_content = E /\ say_content = E
    /\ in_thinking = FALSE /\ has_tool_calls = FALSE
    /\ tool_calls_list = << >> /\ k = 0 /\ arguments = JMap(<< >>) /\ result = NoVal
    /\ events = << >>
    /\ stream_response \in FragmentStreams /\ delivered = << >>
    /\ redact_in = NoVal /\ passes = << >>
    /\ RegistryIdle

\* one tool-call fragment arrives: has_tool_calls = True and the body of
\* "for tc in delta.tool_calls"
ReceiveFragment ==
    /\ pc = "stream" /\ stream_response # << >>
    /\ has_tool_calls' = TRUE
    /\ collected_tool_calls' = ApplyFragment(collected_tool_calls, Head(stream_response))
    /\ delivered' = Append(delivered, Head(stream_response))
    /\ stream_response' = Tail(stream_response)
    /\ UNCHANGED << config_vars, consuming, event_loop, twin, redact_vars, registry_vars, token_stats, pc, messages,
                    tools, iteration,
                    retry, sleeps, collected_content, thinking_content, say_content,
                    in_thinking, call_vars, events >>

\* the stream is exhausted: tool_calls_list is built from the accumulators
EndOfFragments ==
    /\ pc = "stream" /\ stream_response = << >>
    /\ has_tool_calls /\ collected_tool_calls # << >>
    /\ tool_calls_list' = ToolCallsList(collected_tool_calls)
    /\ pc' = "assembled"
    /\ UNCHANGED << config_vars, side_vars, token_stats, messages, tools, iteration, retry,
                    sleeps, turn_vars, k, arguments, result, events >>

NextAsm ==
    \/ ReceiveFragment
    \/ EndOfFragments

SpecAsm == InitAsm /\ [][NextAsm]_vars

\* ---------------------------------------------------------------- redaction
\* redact_sensitive_data applied to a structure, then to its own result, over
\* every structure of a bounded family.

\* how many times in a row the function is applied
MaxPasses == 2

\* string leaves: short, long, with the term in either case, with a control
\* character (inside the term or elsewhere), the marker itself
RedactStrings ==
    { Str("a", 3),
      Str("a", 60),
      TermKey,
      << Run("a", 30), Run("T", 1), Run("K", 1), Run("a", 30) >>,
      << Run("a", 48), Run("T", 1), Run("K", 1) >>,
      << Run("a", 49), Run("T", 1), Run("K", 1) >>,
      << Run("p", 30), Run("U", 1), Run("V", 1), Run("p", 30) >>,
      << Run("a", 2), Run("c", 1), Run("a", 2), Run("n", 1) >>,
      << Run("a", 50), Run("T", 1), Run("c", 1), Run("K", 1) >>,
      << Run("T", 1), Run("K", 1), Run("c", 2), Run("a", 49) >>,
      REDACTED }

\* mapping keys: plain, the term, a key containing the term in upper case,
\* the letters of the term around a control character
RedactKeys ==
    { Str("a", 3), TermKey, UpperTermKey, << Run("T", 1), Run("c", 1), Run("K", 1) >> }

RedactLeaves == { JStr(s) : s \in RedactStrings } \cup { JLit(Str("a", 1)), JLit(Str("a", 4)) }

\* one level: a mapping of one entry, a list of a scalar and a leaf
RedactFlat ==
    { JMap(<< KV(key, leaf) >>) : key \in RedactKeys, leaf \in RedactLeaves }
      \cup { JList(<< KV(E, JLit(Str("a", 1))), KV(E, leaf) >>) : leaf \in RedactLeaves }

\* two levels: a flat structure under a plain or a sensitive key, or in a list
RedactNested ==
    { JMap(<< KV(Str("a", 3), JStr(Secret)), KV(key, inner) >>) :
        key \in {Str("a", 4), UpperTermKey},
        inner \in { f \in RedactFlat : f.t = "list" \/ f.items[1].k # Str("a", 3) } }
      \cup { JList(<< KV(E, inner) >>) : inner \in { f \in RedactFlat : f.t = "map" } }

RedactInputs == RedactLeaves \cup RedactFlat \cup RedactNested

InitRedact ==
    /\ workload = "redact"
    /\ max_iterations = 0
    /\ RetrievalIdle
    /\ mcp_manager = [present |-> FALSE, services |-> << >>]
    /\ token_stats = ZeroStats
    /\ pc = "redact"
    /\ messages = << >> /\ tools = << >> /\ iteration = 0
    /\ retry = 0 /\ sleeps = << >>
    /\ collected_content = E /\ collected_tool_calls = << >>
    /\ thinking_content = E /\ say_content = E
    /\ in_thinking = FALSE /\ has_tool_calls = FALSE
    /\ tool_calls_list = << >> /\ k = 0 /\ arguments = JMap(<< >>) /\ result = NoVal
    /\ events = << >>
    /\ stream_response = << >> /\ delivered = << >>
    /\ redact_in \in RedactInputs /\ passes = << >>
    /\ RegistryIdle

\* redact_sensitive_data(data), then redact_sensitive_data of the last result
RedactPass ==
    /\ pc = "redact" /\ Len(passes) < MaxPasses
    /\ passes' = Append(passes, redact_sensitive_data(
                     IF passes = << >> THEN redact_in ELSE passes[Len(passes)]))
    /\ UNCHANGED << config_vars, consuming, event_loop, twin, asm_vars, registry_vars, redact_in, token_stats, pc, messages, tools, iteration,
                    retry, sleeps, turn_vars, call_vars, events >>

NextRedact == RedactPass

SpecRedact == InitRedact /\ [][NextRedact]_vars

\* --------------------------------------------------------- history compression
\* _compress_messages_if_needed applied to every transcript of a bounded
\* family: system, user and assistant message, then the tool-role messages.

\* most tool-role messages in a transcript of the family
MaxToolMsgs == 3

\* a mapping of eleven keys "a", "aa", ..., whose serialisation is long
ElevenKeys ==
    JMap([i \in 1..11 |-> KV(Str("a", i), JStr(Str("a", IF i = 11 THEN ScenarioLen ELSE 1)))])

\* the results the tool-role messages hold: small; estimated at exactly the
\* per-message threshold; long with two keys; long with eleven keys; a long
\* list; the stand-in of a truncated result
ToolContents ==
    { SmallResult(JMap(<< >>)), ResultOfLen((5 * CompressOver) \div 2), ResultOfLen(ScenarioLen),
      ElevenKeys, JList(<< KV(E, JStr(Str("a", ScenarioLen))) >>),
      auto_chunk_large_result(json_dumps(ResultOfLen(ThresholdLen + 1))) }

\* the transcript of a turn that asked for Len(vals) tools and got vals
TranscriptOf(vals) ==
    << Msg("system", SystemPrompt, << >>, E, NoVal),
       Msg("user", Str("a", 10), << >>, E, NoVal),
       Msg("assistant", E,
           [i \in DOMAIN vals |-> [id |-> CallId(i), name |-> ShellExecute,
                                   arguments |-> json_dumps(JMap(<< >>))]], E, NoVal) >>
    \o [i \in DOMAIN vals |-> Msg("tool", json_dumps(vals[i]), << >>, CallId(i), vals[i])]

InitCompress ==
    /\ workload = "compress"
    /\ max_iterations = 1
    /\ RetrievalIdle
    /\ mcp_manager = [present |-> TRUE, services |-> << ShellService >>]
    /\ token_stats = ZeroStats
    /\ pc = "compress"
    /\ \E n \in 1..MaxToolMsgs : \E vals \in [1..n -> ToolContents] :
         messages = TranscriptOf(vals)
    /\ tools = << >> /\ iteration = 0
    /\ retry = 0 /\ sleeps = << >>
    /\ collected_content = E /\ collected_tool_calls = << >>
    /\ thinking_content = E /\ say_content = E
    /\ in_thinking = FALSE /\ has_tool_calls = FALSE
    /\ tool_calls_list = << >> /\ k = 0 /\ arguments = JMap(<< >>) /\ result = NoVal
    /\ events = << >>
    /\ stream_response = << >> /\ delivered = << >>
    /\ redact_in = NoVal /\ passes = << >>
    /\ RegistryIdle

\* messages = self._compress_messages_if_needed(messages, MAX_HISTORY_TOKENS)
CompressPass ==
    /\ pc = "compress"
    /\ messages' = compress_messages_if_needed(messages, MAX_HISTORY_TOKENS)
    /\ pc' = "compressed"
    /\ UNCHANGED << config_vars, side_vars, token_stats, tools, iteration, retry, sleeps,
                    turn_vars, call_vars, events >>

NextCompress == CompressPass

SpecCompress == InitCompress /\ [][NextCompress]_vars

\* ------------------------------------------- capability registry: operations
\* One caller runs load_service, unload_service, reload_service and
\* check_and_reload_modified on the manager, one statement group a step;
\* beside it the source files are written and one execute_tool call runs.
\* Nothing in MCPServerManager takes a lock around these (the class lock guards
\* __new__ only), so the steps interleave freely.

\* everything but the registry: no registry step touches it
agent_vars == << config_vars, consuming, event_loop, twin, asm_vars, redact_vars, token_stats, pc, messages, tools,
                iteration, retry, sleeps, turn_vars, call_vars, events >>

\* set(self.services.keys())
Names(reg) == { reg[j].name : j \in DOMAIN reg }

\* self.services[name], in the registry reg
Entry(reg, name) == reg[CHOOSE j \in DOMAIN reg : reg[j].name = name]

\* mutant: an assignment that leaves the dict as it was
PutNothing(reg, service) == reg

\* self.services[name] = service: a new key goes last, a present key keeps
\* its place
Put(reg, service) ==
    IF service.name \in Names(reg)
    THEN [j \in DOMAIN reg |-> IF reg[j].name = service.name THEN service ELSE reg[j]]
    ELSE Append(reg, service)

\* mutant: a del that leaves the entry in the dict
DelNothing(reg, name) == reg

\* del self.services[name]
Del(reg, name) == SelectSeq(reg, LAMBDA e : e.name # name)

Snap == [files |-> files, registry |-> registry]

Begin(op, name, todo) ==
    [op |-> op, name |-> name, todo |-> todo, ret |-> FALSE, reloaded |-> << >>,
     pre |-> Snap]

\* the dispatch is between its lookup and its call, on module name
Holding(name) == disp.pc = "found" /\ disp.name = name

\* the orders in which a set of names can be iterated
Orders(S) ==
    { q \in [1..Cardinality(S) -> S] : \A x \in S : \E i \in DOMAIN q : q[i] = x }

\* the registry after app start-up: every discovered module was loaded, the
\* ones that loaded are registered
InitRegistry ==
    /\ workload = "registry"
    /\ max_iterations = 0
    /\ RetrievalIdle
    /\ mcp_manager = [present |-> TRUE, services |-> << >>]
    /\ token_stats = ZeroStats
    /\ pc = "registry"
    /\ messages = << >> /\ tools = << >> /\ iteration = 0
    /\ retry = 0 /\ sleeps = << >>
    /\ collected_content = E /\ collected_tool_calls = << >>
    /\ thinking_content = E /\ say_content = E
    /\ in_thinking = FALSE /\ has_tool_calls = FALSE
    /\ tool_calls_list = << >> /\ k = 0 /\ arguments = JMap(<< >>) /\ result = NoVal
    /\ events = << >>
    /\ stream_response = << >> /\ delivered = << >>
    /\ redact_in = NoVal /\ passes = << >>
    /\ \E other \in { NoFile, File(TRUE, 1, 1, TRUE), File(TRUE, 1, 1, FALSE) } :
         /\ files = [name \in ModuleNames |->
                       IF name = ShellService.name THEN File(TRUE, 1, 1, TRUE) ELSE other]
         /\ registry = << LoadedService(ShellService.name, File(TRUE, 1, 1, TRUE)) >>
                         \o (IF other.exists /\ other.ok
                             THEN << LoadedService(SshService.name, other) >> ELSE << >>)
    /\ mut = IdleMut /\ disp = IdleDisp
    /\ returned = NoOp /\ ops = 0 /\ edits = 0

CanStart == mut.op = "idle" /\ ops < MaxOps

\* a call of load_service(name)
StartLoad ==
    /\ CanStart
    /\ \E name \in ModuleNames :
         mut' = Begin("load", name, << Ins("load", name, FALSE) >>)
    /\ UNCHANGED << agent_vars, files, registry, disp, returned, ops, edits >>

\* a call of unload_service(name)
StartUnload ==
    /\ CanStart
    /\ \E name \in ModuleNames :
         mut' = Begin("unload", name, << Ins("unload", name, FALSE) >>)
    /\ UNCHANGED << agent_vars, files, registry, disp, returned, ops, edits >>

\* a call of reload_service(name): unload_service, then load_service
StartReload ==
    /\ CanStart
    /\ \E name \in ModuleNames :
         mut' = Begin("reload", name, << Ins("unload", name, FALSE),
                                        Ins("load", name, FALSE) >>)
    /\ UNCHANGED << agent_vars, files, registry, disp, returned, ops, edits >>

\* a call of check_and_reload_modified: the first loop runs over a copy of
\* the items, the second over the names discovered and not registered.  No
\* other operation runs during the cycle, so the object the copy holds for a
\* name is the one the registry holds when the loop reaches it.
StartCheck ==
    /\ CanStart
    /\ mut' = Begin("check", E,
                    [j \in DOMAIN registry |-> Ins("ismod", registry[j].name, TRUE)]
                    \o << Ins("discover", E, TRUE) >>)
    /\ UNCHANGED << agent_vars, files, registry, disp, returned, ops, edits >>

Running(i) == mut.op # "idle" /\ mut.todo # << >> /\ Head(mut.todo).i = i

\* "if service.is_modified() and self.reload_service(name)": the test
CheckModified ==
    /\ Running("ismod")
    /\ LET h == Head(mut.todo) IN
       mut' = [mut EXCEPT !.todo =
                 (IF is_modified(Entry(registry, h.name), files[h.name])
                  THEN << Ins("unload", h.name, TRUE), Ins("load", h.name, TRUE) >>
                  ELSE << >>) \o Tail(mut.todo)]
    /\ UNCHANGED << agent_vars, files, registry, disp, returned, ops, edits >>

\* "for name in set(self.discover_services()) - set(self.services.keys())"
DiscoverNew ==
    /\ Running("discover")
    /\ \E order \in Orders(discover_services(files) \ Names(registry)) :
         mut' = [mut EXCEPT !.todo =
                   [j \in DOMAIN order |-> Ins("load", order[j], TRUE)] \o Tail(mut.todo)]
    /\ UNCHANGED << agent_vars, files, registry, disp, returned, ops, edits >>

\* a load_service that takes every source for loadable
LoadsAlways(f) == TRUE

\* load_service gets past "if not module_path.exists()" and "if service.load()"
Loads(f) == f.exists /\ f.ok

\* unload_service: "if name in self.services: self.services[name].unload()";
\* an absent name returns False
UnloadInstance ==
    /\ Running("unload")
    /\ LET h == Head(mut.todo) IN
       IF h.name \in Names(registry)
       THEN /\ registry' = Put(registry, Unloaded(Entry(registry, h.name)))
            /\ mut' = [mut EXCEPT !.todo = << Ins("del", h.name, h.cyc) >> \o Tail(mut.todo)]
            /\ disp' = IF Holding(h.name) /\ disp.alias
                       THEN [disp EXCEPT !.held = Unloaded(@)]
                       ELSE disp
       ELSE /\ mut' = [mut EXCEPT !.todo = Tail(mut.todo), !.ret = FALSE]
            /\ UNCHANGED << agent_vars, registry, disp >>
    /\ UNCHANGED << agent_vars, files, returned, ops, edits >>

\* unload_service: "del self.services[name]; return True"
DeleteEntry ==
    /\ Running("del")
    /\ LET h == Head(mut.todo) IN
       /\ registry' = Del(registry, h.name)
       /\ mut' = [mut EXCEPT !.todo = Tail(mut.todo), !.ret = TRUE]
       /\ disp' = IF Holding(h.name)
                  THEN [disp EXCEPT !.alias = FALSE] ELSE disp
    /\ UNCHANGED << agent_vars, files, returned, ops, edits >>

\* load_service: the file must exist and MCPService(name, path).load() must
\* succeed; then the new object is put into the dict.  Otherwise False is
\* returned and the dict is not touched.
LoadService ==
    /\ Running("load")
    /\ LET h == Head(mut.todo)
           f == files[h.name]
       IN IF Loads(f)
          THEN /\ registry' = Put(registry, LoadedService(h.name, f))
               /\ mut' = [mut EXCEPT !.todo = Tail(mut.todo), !.ret = TRUE,
                                      !.reloaded = IF h.cyc THEN Append(@, h.name) ELSE @]
               /\ disp' = IF Holding(h.name)
                          THEN [disp EXCEPT !.alias = FALSE] ELSE disp
          ELSE /\ mut' = [mut EXCEPT !.todo = Tail(mut.todo), !.ret = FALSE]
               /\ UNCHANGED << agent_vars, registry, disp >>
    /\ UNCHANGED << agent_vars, files, returned, ops, edits >>

\* the operation has run its last statement and is about to return
Returning(op) == mut.op = op /\ mut.todo = << >>

\* the operation returns
FinishOp ==
    /\ mut.op # "idle" /\ mut.todo = << >>
    /\ returned' = [op |-> mut.op,
                    lost |-> IF /\ mut.op = "reload" /\ ~mut.ret
                                /\ mut.name \in Names(mut.pre.registry)
                                /\ Entry(mut.pre.registry, mut.name).loaded
                             THEN mut.name ELSE E,
                    reloaded |-> mut.reloaded, files |-> mut.pre.files]
    /\ ops' = ops + 1
    /\ mut' = IdleMut
    /\ UNCHANGED << agent_vars, files, registry, disp, edits >>

\* the latest st_mtime given to a file so far: the files of start-up have 1,
\* every write or removal since happened at a later time
Latest == 1 + edits

\* a source file is written or created: new text, later st_mtime; the new
\* text may or may not execute
EditSource ==
    /\ edits < MaxEdits
    /\ \E name \in ModuleNames, ok \in BOOLEAN :
         files' = [files EXCEPT ![name] = File(TRUE, Latest + 1, Latest + 1, ok)]
    /\ edits' = edits + 1
    /\ UNCHANGED << agent_vars, registry, mut, disp, returned, ops >>

\* a source file is removed from the services directory; the entry keeps the
\* time of the removal, which tells this state of the directory from every
\* earlier one
RemoveSource ==
    /\ edits < MaxEdits
    /\ \E name \in ModuleNames :
         /\ files[name].exists
         /\ files' = [files EXCEPT ![name] = File(FALSE, Latest + 1, 0, FALSE)]
    /\ edits' = edits + 1
    /\ UNCHANGED << agent_vars, registry, mut, disp, returned, ops >>

\* the function a dispatch asks module name for: "execute" of "shell",
\* "list_hosts" of "ssh"
Requested(name) == IF name = ShellService.name THEN Str("a", 7) ELSE ListHosts

\* execute_tool up to "if func_name not in service.tools": get_service, then
\* the membership test on the object obtained
LookupTool ==
    /\ disp.pc = "idle"
    /\ \E name \in ModuleNames :
         LET func == Requested(name)
             d == [IdleDisp EXCEPT !.name = name, !.func = func]
         IN disp' = IF name \notin Names(registry)
                    THEN [d EXCEPT !.pc = "done", !.outcome = "no_service"]
                    ELSE IF func \notin Entry(registry, name).funcs
                    THEN [d EXCEPT !.pc = "done", !.outcome = "no_tool"]
                    ELSE [d EXCEPT !.pc = "found", !.held = Entry(registry, name),
                                   !.alias = TRUE,
                                   !.found = Entry(registry, name).version]
    /\ UNCHANGED << agent_vars, files, registry, mut, returned, ops, edits >>

\* MCPService.call_tool on the object obtained: its two checks, then the
\* call of tools[tool_name]; an exception becomes an error result
CallTool ==
    /\ disp.pc = "found"
    /\ LET d == [disp EXCEPT !.pc = "done", !.held = NoService, !.alias = FALSE] IN
       disp' = IF ~disp.held.loaded
               THEN [d EXCEPT !.outcome = "not_loaded"]
               ELSE IF disp.func \notin disp.held.funcs
               THEN [d EXCEPT !.outcome = "no_tool"]
               ELSE [d EXCEPT !.outcome = "ok", !.ran = disp.held.version]
    /\ UNCHANGED << agent_vars, files, registry, mut, returned, ops, edits >>

NextRegistry ==
    \/ StartLoad
    \/ StartUnload
    \/ StartReload
    \/ StartCheck
    \/ CheckModified
    \/ DiscoverNew
    \/ UnloadInstance
    \/ DeleteEntry
    \/ LoadService
    \/ FinishOp
    \/ EditSource
    \/ RemoveSource
    \/ LookupTool
    \/ CallTool

SpecRegistry == InitRegistry /\ [][NextRegistry]_vars

\* ------------------------------------- the registry changes during a chat
\* The manager handed to the agent is the process-wide registry: while an
\* invocation runs, load_service and unload_service can run on it.

\* the invocation is between its start and its end
ChatRunning == pc \in {"loop", "request", "stream", "call", "exec", "cap"}

\* what the registry change leaves alone
chat_frame == << workload, max_iterations, knowledge_base, prompt, retrieval, consuming, event_loop, twin, asm_vars, redact_vars, files, registry, mut,
                disp, returned, edits, token_stats, pc, messages, tools, iteration,
                retry, sleeps, turn_vars, call_vars, events >>

\* load_service(name) of a module that is not registered: a new key, last
LoadDuringChat ==
    /\ ChatRunning /\ mcp_manager.present /\ ops < MaxOps
    /\ \E svc \in {ShellService, SshService} :
         /\ get_service(mcp_manager, svc.name) = {}
         /\ mcp_manager' = [mcp_manager EXCEPT !.services = Append(@, svc)]
    /\ ops' = ops + 1
    /\ UNCHANGED chat_frame

\* unload_service(name) of a registered module
UnloadDuringChat ==
    /\ ChatRunning /\ mcp_manager.present /\ ops < MaxOps
    /\ \E svc \in {ShellService, SshService} :
         /\ get_service(mcp_manager, svc.name) # {}
         /\ mcp_manager' = [mcp_manager EXCEPT
                              !.services = SelectSeq(@, LAMBDA e : e.name # svc.name)]
    /\ ops' = ops + 1
    /\ UNCHANGED chat_frame

NextCatalog ==
    \/ StartChat
    \/ LoopHead
    \/ RequestOk
    \/ RequestFail
    \/ ConsumeStream
    \/ StreamFail
    \/ EmitToolCall
    \/ ToolReturn
    \/ ForcedSummaryOk
    \/ ForcedSummaryFail
    \/ CapWithoutCatalog
    \/ LoadDuringChat
    \/ UnloadDuringChat

SpecCatalog == Init /\ [][NextCatalog]_vars

\* ------------------------------------------------------------------ claims

OfType(types) == SelectSeq(events, LAMBDA e : e.type \in types)

Count(type) == Len(OfType({type}))

Done == pc \in {"returned", "ended", "failed"}

RECURSIVE Requests(_)
\* every tool-call request of the transcript, in transcript order
Requests(msgs) ==
    IF msgs = << >> THEN << >>
    ELSE Requests(SubSeq(msgs, 1, Len(msgs) - 1)) \o msgs[Len(msgs)].tool_calls

ToolMessages == SelectSeq(messages, LAMBDA m : m.role = "tool")

\* a turn's dispatch loop is between two calls, or has just finished
InDispatch == pc \in {"call", "exec"}

\* C1: a model turn that requests N tool calls gives N tool_call and N
\* tool_result events for that turn, in request order, and the transcript holds
\* the assistant message with the N requests immediately followed by N
\* tool-role messages, the k-th answering the k-th request's id.  Stated over
\* the whole invocation: the tool_call / tool_result events alternate and follow
\* the requests of the transcript one by one; outside a dispatch loop every
\* request has its two events and its message; every assistant message with N
\* requests is followed by its N tool-role messages and by no further one.
C1_ToolTurnEventsAndTranscript ==
    LET req == Requests(messages)
        tr == OfType({"tool_call", "tool_result"})
        tm == ToolMessages
    IN /\ \A i \in DOMAIN tr :
             /\ tr[i].type = IF i % 2 = 1 THEN "tool_call" ELSE "tool_result"
             /\ (i + 1) \div 2 \in DOMAIN req
             /\ tr[i].tool_name = req[(i + 1) \div 2].name
       /\ Len(tm) = Count("tool_result")
       /\ \A j \in DOMAIN tm : j \in DOMAIN req /\ tm[j].tool_call_id = req[j].id
       /\ ~InDispatch => Count("tool_call") = Len(req) /\ Count("tool_result") = Len(req)
       /\ pc = "call" => Count("tool_call") = Count("tool_result")
       /\ pc = "exec" => Count("tool_call") = Count("tool_result") + 1
       /\ \A i \in DOMAIN messages :
             LET n == Len(messages[i].tool_calls)
                 answered == IF InDispatch /\ i + k - 1 = Len(messages) THEN k - 1 ELSE n
             IN messages[i].role = "assistant" /\ n > 0 =>
                  /\ i + answered <= Len(messages)
                  /\ \A j \in 1..answered :
                        /\ messages[i + j].role = "tool"
                        /\ messages[i + j].tool_call_id = messages[i].tool_calls[j].id
                  /\ i + answered + 1 \in DOMAIN messages => messages[i + answered + 1].role # "tool"

\* C1 witness: a turn with two requests has been dispatched to its end
C1_Witness ==
    /\ pc = "loop" /\ Len(tool_calls_list) = 2 /\ k = 3
    /\ Count("tool_result") = 2
    /\ messages[Len(messages)].tool_call_id = tool_calls_list[2].id

\* no model turn of the invocation has requested a tool call
NoToolTurn ==
    /\ \A i \in DOMAIN messages : messages[i].tool_calls = << >>
    /\ ~has_tool_calls

NoToolEvents == Count("tool_call") = 0 /\ Count("tool_result") = 0

\* C2 as stated: an invocation in which no model turn requests a tool call
\* yields exactly one complete event and no tool_call or tool_result event.
C2_Original ==
    Done /\ NoToolTurn => Count("complete") = 1 /\ NoToolEvents

\* a model request was made: one in the loop, or the forced summary at the cap
ModelRequested == token_stats.api_calls > 0 \/ (pc = "ended" /\ tools # << >>)

\* C2 as amended: such an invocation yields no tool_call or tool_result event
\* and at most one complete event: exactly one when it made a model request
\* (in the loop, or the forced summary) and yields no error event; none when
\* it yields an error event or makes no model request at all.
C2_NoToolCallsOneComplete ==
    Done /\ NoToolTurn =>
        /\ NoToolEvents
        /\ Count("complete") =
              (IF Count("error") = 0 /\ ModelRequested THEN 1 ELSE 0)

\* C2 witness: a turn without tool call was streamed to its end and completed
C2_Witness ==
    /\ pc = "returned" /\ NoToolTurn
    /\ token_stats.api_calls = 1 /\ Count("complete") = 1 /\ Count("say") > 0

\* C3 as stated: when the loop reaches max_iterations without a turn free of
\* tool calls, the invocation yields exactly one complete event and no error
\* event, whatever the maximum and the catalog; when the summary fails, the
\* complete event carries the fallback text.
C3_CapYieldsOneComplete ==
    pc = "ended" =>
        /\ Count("complete") = 1
        /\ Count("error") = 0
        /\ events[Len(events)].type = "complete"

Terminal == {"complete", "error"}

\* tool-dispatching turns of the invocation: assistant messages with requests
DispatchingTurns == Len(SelectSeq(messages, LAMBDA m : m.tool_calls # << >>))

\* C5 as stated (its safety part): a finished invocation made at most
\* max_iterations tool-dispatching turns, and its event stream holds exactly
\* one terminal event, complete or error, which is its last event.
C5_OneTerminalEvent ==
    /\ DispatchingTurns <= max_iterations
    /\ \A i \in 1..(Len(events) - 1) : events[i].type \notin Terminal
    /\ Done => /\ Len(OfType(Terminal)) = 1
               /\ events[Len(events)].type \in Terminal

\* the request has failed on every attempt of the current iteration
RequestsExhausted == pc = "failed" /\ token_stats.api_calls < iteration

\* C4: in an iteration the request is attempted at most 3 times; a failed
\* first or second attempt is followed by a backoff, longer after the second
\* than after the first; a success leads to stream consumption with no error
\* event so far; three failures end the invocation with one error event, its
\* last event, and no complete event.
C4_RetryThenFail ==
    /\ pc \in {"request", "stream"} =>
          /\ retry \in 0..2
          /\ Len(sleeps) = retry
          /\ Count("error") = 0
    /\ Len(sleeps) <= 2
    /\ \A i \in DOMAIN sleeps : sleeps[i] > 0
    /\ \A i \in 1..(Len(sleeps) - 1) : sleeps[i] < sleeps[i + 1]
    /\ RequestsExhausted =>
          /\ retry = 2 /\ Len(sleeps) = 2
          /\ Count("error") = 1 /\ Count("complete") = 0
          /\ events[Len(events)].type = "error"

\* C4 witness: three failed attempts in the second iteration ended the run
C4_Witness ==
    /\ RequestsExhausted /\ iteration = 2
    /\ sleeps = << 2, 4 >>
    /\ events[Len(events)].type = "error"

RECURSIVE NamePieces(_, _)
\* the name pieces of the fragments of index idx, concatenated in arrival order
NamePieces(frags, idx) ==
    IF frags = << >> THEN E
    ELSE LET last == frags[Len(frags)]
             before == NamePieces(SubSeq(frags, 1, Len(frags) - 1), idx)
         IN IF last.index = idx THEN Cat(before, last.name) ELSE before

RECURSIVE ArgumentSlices(_, _)
\* the argument slices of the fragments of index idx, concatenated in arrival order
ArgumentSlices(frags, idx) ==
    IF frags = << >> THEN E
    ELSE LET last == frags[Len(frags)]
             before == ArgumentSlices(SubSeq(frags, 1, Len(frags) - 1), idx)
         IN IF last.index = idx THEN Cat(before, last.arguments) ELSE before

\* C6 as stated: for the fragments that share one index, the assembled request's
\* name is the concatenation of their name pieces in arrival order and its
\* argument string the concatenation of their argument slices in arrival order.
C6_FragmentsConcatenate ==
    \A idx \in DOMAIN collected_tool_calls :
        /\ collected_tool_calls[idx].name = NamePieces(delivered, idx)
        /\ collected_tool_calls[idx].arguments = ArgumentSlices(delivered, idx)

\* the state right after a tool call returned: result, arguments and the
\* request tool_calls_list[k - 1] are those of the call just dispatched
LastDispatched == pc \in {"call", "loop"} /\ k > 1 /\ tool_calls_list # << >>

LastEvent == events[Len(events)]

LastMessage == messages[Len(messages)]

\* C7 as stated: no tool_call or tool_result event carries the unredacted value
\* of an entry with a sensitive key, the payload of a truncated result included.
C7_NoSecretInToolEvents ==
    \A i \in DOMAIN events :
        events[i].type \in {"tool_call", "tool_result"} => ~Tainted(events[i].data)

\* C8: for a tool result that is not truncated, the tool-role message holds the
\* serialisation of the full unredacted result while the tool_result event of
\* the call holds the redacted copy; the arguments handed to dispatch are the
\* parsed ones, not the redacted ones shown in the tool_call event.
C8_TranscriptKeepsUnredacted ==
    /\ LastDispatched /\ estimate_tokens(json_dumps(result)) <= MAX_TOOL_RESULT_TOKENS =>
          /\ LastMessage.role = "tool"
          /\ LastMessage.content = json_dumps(result)
          /\ LastMessage.val = result
          /\ LastEvent.type = "tool_result"
          /\ LastEvent.data = redact_sensitive_data(result)
          /\ Tainted(result) =>
                HasCls(LastMessage.content, {"s"}) /\ ~Tainted(LastEvent.data)
          /\ arguments = ParseArguments(tool_calls_list[k - 1].arguments)
          /\ result = SmallResult(result.items[Len(result.items)].v) =>
                result.items[Len(result.items)].v = arguments
    /\ pc = "exec" =>
          /\ arguments = ParseArguments(tool_calls_list[k].arguments)
          /\ LastEvent.type = "tool_call"
          /\ LastEvent.data = redact_sensitive_data(arguments)

\* C8 witness: a call with a secret argument returned a result that repeats it
C8_Witness ==
    /\ LastDispatched
    /\ Tainted(arguments)
    /\ result = SmallResult(arguments)
    /\ HasCls(LastMessage.content, {"s"})
    /\ LastEvent.data # result

\* the tool-role message just appended holds the truncated stand-in
StandInAppended ==
    LastMessage.val = auto_chunk_large_result(json_dumps(result))

\* C9: a tool result is replaced by a truncated stand-in if and only if its
\* serialised size exceeds the threshold, which is MAX_TOOL_RESULT_TOKENS
\* estimated tokens, that is ThresholdLen characters; at or below it no
\* process_info event is emitted, the tool_result event carries the redacted
\* result and the transcript its full serialisation.
C9_TruncatedIffOverThreshold ==
    LastDispatched =>
        LET size == StrLen(json_dumps(result)) IN
        /\ StandInAppended <=> (size * 2) \div 5 > MAX_TOOL_RESULT_TOKENS
        /\ StandInAppended <=> size > ThresholdLen
        /\ StandInAppended <=> events[Len(events) - 1].type = "process_info"
        /\ LastEvent.type = "tool_result"
        /\ size <= ThresholdLen =>
              /\ LastEvent.data = redact_sensitive_data(result)
              /\ LastMessage.content = json_dumps(result)

\* C9 witness: a result of exactly the threshold size went through untruncated
C9_Witness ==
    /\ LastDispatched
    /\ StrLen(json_dumps(result)) = ThresholdLen
    /\ StrLen(LastMessage.content) = ThresholdLen
    /\ Count("process_info") = 0

\* C10 as stated: a result serialised to 120,000 characters gives a
\* process_info event followed by a tool_result event whose payload is the
\* stand-in: at most 50,000 characters of the result and the note.
C10_Original ==
    LastDispatched /\ StrLen(json_dumps(result)) = ScenarioLen =>
        /\ events[Len(events) - 1].type = "process_info"
        /\ LastEvent.type = "tool_result"
        /\ LastEvent.data = auto_chunk_large_result(json_dumps(result))

\* C10 as amended: a result serialised to 120,000 characters is below the
\* limit of 80,000 estimated tokens and is not truncated (no process_info, the
\* full serialisation in the transcript); a result over the limit (200,003
\* characters or more) gives process_info and then a tool_result whose payload
\* holds a fixed message and the first 500 characters of the result, while the
\* stand-in - the first 50,000 characters of the result and a note of the
\* original length - is what the transcript carries.
C10_TruncationScenario ==
    LastDispatched =>
        LET result_json == json_dumps(result)
            size == StrLen(result_json)
        IN /\ size = ScenarioLen =>
                /\ events[Len(events) - 1].type # "process_info"
                /\ LastEvent.type = "tool_result"
                /\ LastMessage.content = result_json
           /\ size > ThresholdLen =>
                /\ events[Len(events) - 1].type = "process_info"
                /\ LastEvent.type = "tool_result"
                /\ LastEvent.data.items[2].v.s = Take(result_json, PreviewChars)
                /\ StrLen(LastEvent.data.items[2].v.s) <= PreviewChars
                /\ LastMessage.content = json_dumps(LastMessage.val)
                /\ DataOf(LastMessage.val) =
                      Cat(Take(result_json, TruncateChars), TruncationNote(size))
                /\ StrLen(DataOf(LastMessage.val)) =
                      TruncateChars + StrLen(TruncationNote(size))

\* C10 witness: a result one character over the limit was truncated
C10_Witness ==
    /\ LastDispatched
    /\ StrLen(json_dumps(result)) = ThresholdLen + 1
    /\ events[Len(events) - 1].type = "process_info"
    /\ StrLen(LastEvent.data.items[2].v.s) = PreviewChars

\* the stand-in: flagged truncated and not chunked, its data the first
\* TruncateChars characters of the serialisation and the note of its length
IsStandInOf(v, result_json) ==
    /\ v.t = "map" /\ Len(v.items) = 5
    /\ v.items[2].v = JFalse /\ v.items[3].v = JTrue
    /\ v.items[4].v.s = Cat(Take(result_json, TruncateChars),
                            TruncationNote(StrLen(result_json)))

C12_RedactionIdempotent ==
    \A i \in 1..(Len(passes) - 1) : passes[i + 1] = passes[i]

\* the text holds the sensitive term, in any mix of cases
HoldsTermAnyCase(s) ==
    \E i \in DOMAIN s :
        i + 1 \in DOMAIN s /\ s[i].c \in {"T", "U"} /\ s[i + 1].c \in {"K", "V"}

RECURSIVE RedactedAs(_, _)
\* r is d with the value of every entry under a sensitive key replaced by the
\* marker, every long string leaf holding the term replaced by the marker, and
\* everything else in place, strings stripped of their control characters
RedactedAs(d, r) ==
    IF d.t \in {"map", "list"}
    THEN /\ r.t = d.t /\ r.s = E
         /\ Len(r.items) = Len(d.items)
         /\ \A i \in DOMAIN d.items :
              /\ r.items[i].k = d.items[i].k
              /\ IF d.t = "map" /\ HoldsTermAnyCase(d.items[i].k)
                 THEN r.items[i].v = JStr(REDACTED)
                 ELSE RedactedAs(d.items[i].v, r.items[i].v)
    ELSE IF d.t = "str"
    THEN /\ r.t = "str" /\ r.items = << >>
         /\ IF StrLen(d.s) > 50 /\ HoldsTermAnyCase(d.s)
            THEN r.s = REDACTED
            ELSE /\ ~HasCls(r.s, {"c"})
                 /\ r.s = Norm(SelectSeq(d.s, LAMBDA run : run.c # "c"))
    ELSE r = d

\* C13: at every depth redaction puts the marker in place of the value of
\* every mapping entry whose key, case-insensitively, is or contains the
\* sensitive term and in place of every long string leaf that contains it, and
\* returns every other entry, element and scalar at its position with its key
\* and, up to the stripping of control characters from strings, its value.
C13_RedactionByKeyAndLeaf ==
    passes # << >> => RedactedAs(redact_in, passes[1])

\* C13 witness: a two-level mapping with a plain and an upper-case sensitive
\* key was redacted: the first entry is kept, the second replaced
C13_Witness ==
    /\ Len(passes) = 1
    /\ redact_in.t = "map" /\ Len(redact_in.items) = 2
    /\ redact_in.items[2].k = UpperTermKey /\ redact_in.items[2].v.t = "map"
    /\ passes[1].items[1] = redact_in.items[1]
    /\ passes[1].items[2].v = JStr(REDACTED)

\* the value is a result with an error field: {"error": <message>}
IsError(v) == v.t = "map" /\ Len(v.items) = 1 /\ v.items[1].k = Str("a", 5)

\* the modules of the registry whose name is name
Loaded(name) == { i \in DOMAIN mcp_manager.services : mcp_manager.services[i].name = name }

\* the call of that name cannot be dispatched: no registry, no separator in
\* the name, module not in the registry, function not in its tool mapping
FailsAtDispatch(name) ==
    \/ ~mcp_manager.present
    \/ FirstOf(name, "p") = 0
    \/ Loaded(BeforeFirst(name, "p")) = {}
    \/ \A i \in Loaded(BeforeFirst(name, "p")) :
          AfterFirst(name, "p") \notin mcp_manager.services[i].tools

\* C14: a tool call that fails at dispatch (module not in the registry,
\* function not in the tool mapping, name without separator, exception raised
\* by the tool) does not end the invocation: its result has an error field, is
\* the payload of the call's tool_result event and the content of its
\* tool-role message, and the loop goes on with the next call or the next turn.
C14_DispatchFailureNotFatal ==
    LastDispatched =>
        /\ FailsAtDispatch(tool_calls_list[k - 1].name) => IsError(result)
        /\ IsError(result) =>
              /\ Count("error") = 0
              /\ LastEvent.type = "tool_result"
              /\ LastEvent.tool_name = tool_calls_list[k - 1].name
              /\ IsError(LastEvent.data)
              /\ LastMessage.role = "tool"
              /\ LastMessage.tool_call_id = tool_calls_list[k - 1].id
              /\ LastMessage.content = json_dumps(result)
              /\ pc = (IF k <= Len(tool_calls_list) THEN "call" ELSE "loop")

\* C14 witness: the first call of a turn named a module that is not loaded,
\* the second call of the turn was dispatched after it and returned its result
C14_Witness ==
    /\ LastDispatched /\ pc = "loop" /\ Len(tool_calls_list) = 2
    /\ Loaded(BeforeFirst(tool_calls_list[1].name, "p")) = {}
    /\ IsError(messages[Len(messages) - 1].val)
    /\ result = SmallResult(arguments)
    /\ LastMessage.val = result

\* C15: dispatch splits the name at the first separator only: the module is
\* the text before it and the function all the rest, looked up intact in the
\* module's tool mapping even when it holds a separator itself.
C15_SplitAtFirstSeparator ==
    LastDispatched /\ FirstOf(tool_calls_list[k - 1].name, "p") # 0 /\ mcp_manager.present =>
        LET name == tool_calls_list[k - 1].name
            module == BeforeFirst(name, "p")
            function == AfterFirst(name, "p")
        IN /\ Cat(Cat(module, Str("p", 1)), function) = name
           /\ ~HasCls(module, {"p"})
           /\ Loaded(module) = {} <=> result = ErrorResult(3)
           /\ \A i \in Loaded(module) :
                /\ function \notin mcp_manager.services[i].tools <=> result = ErrorResult(4)
                /\ function \in mcp_manager.services[i].tools =>
                      result \in ToolOutcome(function, workload, arguments) \cup {ErrorResult(5)}

\* C15 witness: "ssh_list_hosts" was dispatched to "list_hosts" of module "ssh"
C15_Witness ==
    /\ LastDispatched
    /\ tool_calls_list[k - 1].name = SshListHosts
    /\ HasCls(AfterFirst(tool_calls_list[k - 1].name, "p"), {"p"})
    /\ result = HostsResult

\* the names a cycle returned
Reloaded(op) == { op.reloaded[j] : j \in DOMAIN op.reloaded }

\* a check cycle is about to return and no source file was written while it ran
QuietCycle == Returning("check") /\ mut.pre.files = files

\* name was registered and loaded when the running operation began, and its
\* source file has been written since its load
ChangedSinceLoad(name) ==
    /\ name \in Names(mut.pre.registry)
    /\ Entry(mut.pre.registry, name).loaded
    /\ files[name].exists
    /\ files[name].mtime > Entry(mut.pre.registry, name).last_modified

\* the registry holds for name a loaded object made from the present source
HoldsPresentSource(name) ==
    /\ name \in Names(registry)
    /\ Entry(registry, name).loaded
    /\ Entry(registry, name).version = files[name].version
    /\ Entry(registry, name).last_modified = files[name].mtime

\* the cycle that returned last reloaded the module the dispatch asks for, and
\* nothing was written or started since that cycle began
AfterReloadOf(name) ==
    /\ mut.op = "idle"
    /\ returned.op = "check"
    /\ name \in Reloaded(returned)
    /\ returned.files = files

\* C16 as stated: a loaded module whose source changed after its load is
\* reloaded by the next check_and_reload_modified cycle, its name is in the
\* returned list
C16_Original ==
    QuietCycle =>
        \A name \in ModuleNames :
            ChangedSinceLoad(name) =>
                name \in Reloaded(mut) /\ HoldsPresentSource(name)

\* C16: a loaded module whose source changed after its load, and whose new
\* source loads, is reloaded by the next check_and_reload_modified cycle: its
\* name is in the returned list and the registry holds the object made from
\* the new source; a dispatch that looks the module up after that cycle finds
\* the function of the new source, and a dispatch that runs a function runs
\* the one it found
C16_ReloadOnChange ==
    /\ QuietCycle =>
          \A name \in ModuleNames :
              ChangedSinceLoad(name) /\ files[name].ok =>
                  name \in Reloaded(mut) /\ HoldsPresentSource(name)
    /\ disp.pc = "found" /\ disp.alias /\ AfterReloadOf(disp.name) =>
          disp.found = files[disp.name].version
    /\ disp.pc = "done" /\ disp.outcome = "ok" => disp.ran = disp.found

\* C16 witness: a cycle reloaded a module from a rewritten source, and a
\* dispatch begun after it ran the function of that source
C16_Witness ==
    /\ AfterReloadOf(disp.name)
    /\ disp.pc = "done" /\ disp.outcome = "ok"
    /\ disp.ran = files[disp.name].version
    /\ disp.ran > 1

\* C17: a dispatch whose lookup obtained the service and found the function
\* completes by running the function of the version it found, without a
\* failure, whatever unload or reload of the module runs between its lookup
\* and its call
C17_DispatchCompletesAgainstItsVersion ==
    disp.pc = "done" /\ disp.found # 0 =>
        disp.outcome = "ok" /\ disp.ran = disp.found

\* what get_service(name) returns to a caller that asks now
Observed(name) == IF name \in Names(registry) THEN Entry(registry, name) ELSE NoService

\* reload_service(M) is running, and M was registered and loaded when it began
ReloadingLoaded ==
    /\ mut.op = "reload"
    /\ mut.name \in Names(mut.pre.registry)
    /\ Entry(mut.pre.registry, mut.name).loaded

\* C18: module swaps are atomic to concurrent readers: at no point during
\* reload_service(M) of a loaded module does get_service(M) find M absent from
\* the registry, unloaded, or with an empty tool mapping
C18_ReloadAtomicToReaders ==
    ReloadingLoaded =>
        /\ mut.name \in Names(registry)
        /\ Observed(mut.name).loaded
        /\ Observed(mut.name).funcs # {}

\* the names the running cycle has to reload: registered and loaded when it
\* began, source written since the load
ToReload == { name \in ModuleNames : ChangedSinceLoad(name) }

\* the names the running cycle has to load: discovered, not registered when
\* it began
ToLoad == discover_services(files) \ Names(mut.pre.registry)

\* the entry of name is what it was when the running operation began
EntryKept(name) ==
    IF name \in Names(mut.pre.registry)
    THEN name \in Names(registry) /\ Entry(registry, name) = Entry(mut.pre.registry, name)
    ELSE name \notin Names(registry)

\* C19: a check_and_reload_modified cycle, no source written while it runs,
\* reloads every loaded module whose source was written since its load and
\* loads every discovered module that is not registered; it returns exactly
\* the names whose load succeeded, each once, those are registered with an
\* object made from the present source, the ones whose load failed are not
\* registered, and every module it had nothing to do for keeps its entry; a second cycle with no source written since the first
\* began returns the empty list and leaves the registry as it was
C19_CycleReloadsAndLoads ==
    /\ QuietCycle =>
          /\ Reloaded(mut) = { name \in ToReload \cup ToLoad : files[name].ok }
          /\ Len(mut.reloaded) = Cardinality(Reloaded(mut))
          /\ \A name \in Reloaded(mut) : HoldsPresentSource(name)
          /\ \A name \in (ToReload \cup ToLoad) \ Reloaded(mut) : name \notin Names(registry)
          /\ \A name \in ModuleNames \ (ToReload \cup ToLoad) : EntryKept(name)
    /\ Returning("check") /\ returned.op = "check" /\ returned.files = files =>
          /\ mut.reloaded = << >>
          /\ registry = mut.pre.registry

\* C19 witness: a cycle that reloaded or loaded a module is followed, no source
\* written meanwhile, by a second cycle about to return
C19_Witness ==
    /\ Returning("check")
    /\ returned.op = "check" /\ returned.reloaded # << >>
    /\ returned.files = files

\* the source of name, as it is and was throughout the running operation, is
\* missing or does not execute
SourceFails(name) ==
    /\ mut.pre.files = files
    /\ ~(files[name].exists /\ files[name].ok)

\* C20 as stated: a load_service(name) that fails returns false, leaves name
\* out of the registry and every other module's entry unchanged
C20_Original ==
    Returning("load") /\ SourceFails(mut.name) =>
        /\ ~mut.ret
        /\ mut.name \notin Names(registry)
        /\ \A name \in ModuleNames \ {mut.name} : EntryKept(name)

\* C20: a load_service(name) whose source is missing or does not execute
\* returns false and leaves the registry as it was, name out of it if it was
\* out and every entry with its object, tool mapping and loaded flag; inside
\* reload_service it leaves name out and the other entries as they were; and a
\* cycle loads every discovered, unregistered module whose source executes,
\* whichever of the others failed before it
C20_FailedLoadLeavesRegistry ==
    /\ Returning("load") /\ SourceFails(mut.name) =>
          /\ ~mut.ret
          /\ registry = mut.pre.registry
    /\ Returning("reload") /\ SourceFails(mut.name) =>
          /\ ~mut.ret
          /\ mut.name \notin Names(registry)
          /\ \A name \in ModuleNames \ {mut.name} : EntryKept(name)
    /\ QuietCycle =>
          \A name \in ToLoad : files[name].ok => HoldsPresentSource(name)

\* C20 witness: a cycle had two modules to load, the source of one does not
\* execute, and the load that ran last succeeded: the cycle went on after the
\* failure, and the module registered before is as it was
C20_Witness ==
    /\ QuietCycle /\ mut.ret
    /\ \E bad \in ToLoad, good \in ToLoad :
         /\ ~files[bad].ok /\ bad \notin Names(registry)
         /\ files[good].ok /\ HoldsPresentSource(good)

\* C21: unload_service(name) discards the tool mapping of the object
\* registered under name and removes name from the registry, touching no
\* other entry; applied to a name that is not registered (a second time, or
\* never loaded) it returns, False, and leaves the registry as it was
C21_UnloadIdempotent ==
    /\ mut.op = "unload" /\ Running("del") =>
          /\ ~Entry(registry, mut.name).loaded
          /\ Entry(registry, mut.name).funcs = {}
    /\ Returning("unload") =>
          /\ mut.name \notin Names(registry)
          /\ \A name \in ModuleNames \ {mut.name} : EntryKept(name)
          /\ mut.ret = (mut.name \in Names(mut.pre.registry))
    /\ Returning("unload") /\ mut.name \notin Names(mut.pre.registry) =>
          registry = mut.pre.registry

\* C21 witness: "shell", registered at start-up and unloaded by the operation
\* before, is unloaded a second time, and the operation is about to return
C21_Witness ==
    /\ Returning("unload") /\ returned.op = "unload"
    /\ mut.name = ShellService.name
    /\ mut.name \notin Names(mut.pre.registry)
    /\ ~mut.ret
    /\ registry = mut.pre.registry

\* C22: a module that was registered and loaded when a check cycle began, and
\* whose source file is gone from the services directory, is not in the
\* registry when the cycle returns
C22_DisappearedModuleRemoved ==
    QuietCycle =>
        \A name \in Names(mut.pre.registry) :
            ~files[name].exists => name \notin Names(registry)

\* C23: the catalog sent with a model request is the concatenation, in
\* registry order, of the definitions of the modules registered when the
\* request is sent
C23_RequestCarriesCurrentCatalog ==
    [][pc = "request" /\ pc' = "stream" => tools = get_tools(mcp_manager)]_vars

RECURSIVE Emitted(_, _)
\* the contents of the events of the given type among the first n events,
\* joined in emission order
Emitted(type, n) ==
    IF n = 0 THEN E
    ELSE Cat(Emitted(type, n - 1),
             IF events[n].type = type THEN events[n].content ELSE E)

\* C24: the complete event that ends an invocation after a turn without tool
\* calls carries the accumulated text of the invocation: its say field is the
\* concatenation of the contents of the say events emitted before it, its
\* think field that of the think events
C24_CompleteCarriesAccumulatedText ==
    pc = "returned" =>
        /\ LastEvent.type = "complete"
        /\ LastEvent.say = Emitted("say", Len(events) - 1)
        /\ LastEvent.think = Emitted("think", Len(events) - 1)

\* a text without its reasoning markers
WithoutMarkers(s) == Norm(SelectSeq(s, LAMBDA r : r.c \notin {"O", "C"}))

RECURSIVE Streamed(_)
\* the contents of the think and say events among the first n events, joined
\* in emission order
Streamed(n) ==
    IF n = 0 THEN E
    ELSE Cat(Streamed(n - 1),
             IF events[n].type \in {"think", "say"} THEN events[n].content ELSE E)

\* the first turn's stream has been consumed to its end
FirstStreamConsumed == iteration = 1 /\ pc \in {"returned", "call", "exec"}

\* C25: every content character of a turn other than the reasoning markers is
\* emitted in exactly one think or say event, in stream order, and no marker
\* is emitted
C25_EveryCharacterEmittedOnce ==
    FirstStreamConsumed =>
        Streamed(Len(events)) = WithoutMarkers(collected_content)

\* where the i-th event stands in the order tool_call, (process_info),
\* tool_result of one call: a tool_call is followed at once by the
\* process_info or the tool_result of the same call, unless it is the last
\* event and its dispatch is running; a process_info stands between the
\* tool_call and the tool_result of one call; a tool_result follows the
\* tool_call or the process_info of its call
InCallOrder(i) ==
    LET e == events[i] IN
    /\ e.type = "tool_call" =>
          IF i = Len(events) THEN pc = "exec"
          ELSE \/ events[i + 1].type = "process_info"
               \/ events[i + 1].type = "tool_result" /\ events[i + 1].tool_name = e.tool_name
    /\ e.type = "process_info" =>
          /\ i > 1 /\ events[i - 1].type = "tool_call"
          /\ i < Len(events) /\ events[i + 1].type = "tool_result"
          /\ events[i + 1].tool_name = events[i - 1].tool_name
    /\ e.type = "tool_result" =>
          i > 1 /\ events[i - 1].type \in {"tool_call", "process_info"}

\* C26: the tool calls of a turn are dispatched one at a time in request
\* order.  While the dispatch of call k runs, the last event is the tool_call
\* of request k, every earlier call of the invocation has its tool_result
\* event and its tool-role message, and the last message answers request
\* k - 1 (or is the assistant message, for k = 1); when the loop is between
\* two calls every call so far has its result and its message; and the events
\* of each call come in the order tool_call, (process_info), tool_result, the
\* tool_call events following the requests of the transcript one by one
C26_SequentialDispatchInOrder ==
    /\ pc = "exec" =>
          /\ LastEvent.type = "tool_call"
          /\ LastEvent.tool_name = tool_calls_list[k].name
          /\ Count("tool_call") = Count("tool_result") + 1
          /\ Len(ToolMessages) = Count("tool_result")
          /\ IF k = 1 THEN LastMessage.tool_calls = tool_calls_list
             ELSE /\ LastMessage.role = "tool"
                  /\ LastMessage.tool_call_id = tool_calls_list[k - 1].id
    /\ pc = "call" =>
          /\ Count("tool_call") = Count("tool_result")
          /\ Len(ToolMessages) = Count("tool_result")
          /\ k > 1 => LastEvent.type = "tool_result"
                       /\ LastEvent.tool_name = tool_calls_list[k - 1].name
                       /\ LastMessage.tool_call_id = tool_calls_list[k - 1].id
    /\ \A i \in DOMAIN events : InCallOrder(i)
    /\ LET calls == OfType({"tool_call"})
           req == Requests(messages)
       IN \A j \in DOMAIN calls : j \in DOMAIN req /\ calls[j].tool_name = req[j].name

\* C26 witness: the second call of a turn returned an oversized result after
\* the first call had its result: tool_call, tool_result, tool_call,
\* process_info, tool_result
C26_Witness ==
    /\ LastDispatched /\ k = 3
    /\ Len(events) >= 5
    /\ events[Len(events) - 1].type = "process_info"
    /\ events[Len(events) - 2].type = "tool_call"
    /\ events[Len(events) - 3].type = "tool_result"
    /\ events[Len(events) - 4].type = "tool_call"
    /\ messages[Len(messages) - 1].tool_call_id = tool_calls_list[1].id
    /\ LastMessage.tool_call_id = tool_calls_list[2].id

\* ----------------------------------------------------- chat without streaming
\* the result dict of _sync_chat_with_tools
SyncResult(think, say, tcs) ==
    [type |-> "complete", think |-> think, say |-> say, tool_calls |-> tcs]

\* tc["result"] = chunk["result"] for every collected call of that name
SetResults(tcs, name, res) ==
    [i \in DOMAIN tcs |-> IF tcs[i].name = name THEN [tcs[i] EXCEPT !.result = res] ELSE tcs[i]]

RECURSIVE sync_chat_keeps_partials(_)
\* mutant: the complete chunk does not overwrite the accumulated text
sync_chat_keeps_partials(chunks) ==
    IF chunks = << >> THEN SyncResult(E, E, << >>)
    ELSE LET r == sync_chat_keeps_partials(SubSeq(chunks, 1, Len(chunks) - 1))
             chunk == chunks[Len(chunks)]
         IN CASE chunk.type = "think" -> [r EXCEPT !.think = Cat(@, chunk.content)]
              [] chunk.type = "say" -> [r EXCEPT !.say = Cat(@, chunk.content)]
              [] OTHER -> r

RECURSIVE sync_chat_with_tools(_)
\* _sync_chat_with_tools: the result dict after the chunks of the stream
sync_chat_with_tools(chunks) ==
    IF chunks = << >> THEN SyncResult(E, E, << >>)
    ELSE LET r == sync_chat_with_tools(SubSeq(chunks, 1, Len(chunks) - 1))
             chunk == chunks[Len(chunks)]
         IN CASE chunk.type = "tool_call" ->
                   [r EXCEPT !.tool_calls =
                       Append(@, [name |-> chunk.tool_name, arguments |-> chunk.data,
                                  result |-> NoVal])]
              [] chunk.type = "tool_result" ->
                   [r EXCEPT !.tool_calls = SetResults(@, chunk.tool_name, chunk.data)]
              [] chunk.type = "think" -> [r EXCEPT !.think = Cat(@, chunk.content)]
              [] chunk.type = "say" -> [r EXCEPT !.say = Cat(@, chunk.content)]
              [] chunk.type = "complete" -> [r EXCEPT !.think = chunk.think, !.say = chunk.say]
              [] OTHER -> r

\* what _stream_chat_with_tools itself yielded: the error event is chat()'s
StreamChunks == SelectSeq(events, LAMBDA e : e.type # "error")

\* chat(prompt, stream=False) over the finished invocation: the result of
\* _sync_chat_with_tools, or the error event when the stream raised
chat_sync ==
    IF pc = "failed"
    THEN << [type |-> "error", think |-> E, say |-> E, tool_calls |-> << >>] >>
    ELSE << sync_chat_with_tools(StreamChunks) >>

\* C27: without streaming an invocation yields exactly one event, a complete
\* event or, exactly when the invocation failed, an error event; the complete
\* event carries the think and say text of the complete event the stream ended
\* with, and a collected call carries the result of the last tool_result of
\* its name
C27_SyncYieldsOneEvent ==
    Done =>
        /\ Len(chat_sync) = 1
        /\ chat_sync[1].type \in Terminal
        /\ chat_sync[1].type = "error" <=> pc = "failed"
        /\ pc # "failed" /\ Count("complete") > 0 =>
              /\ chat_sync[1].say = LastEvent.say
              /\ chat_sync[1].think = LastEvent.think
        /\ pc # "failed" => Len(chat_sync[1].tool_calls) = Count("tool_call")

\* C27 witness: an invocation that said something while asking for tools, ran
\* them, and ended with a turn of text; the one event carries the last turn's text
C27_Witness ==
    /\ pc = "returned" /\ iteration = 2
    /\ Count("tool_result") > 0
    /\ Emitted("say", Len(events)) # LastEvent.say
    /\ chat_sync[1].type = "complete"
    /\ chat_sync[1].say = LastEvent.say /\ LastEvent.say # E
    /\ chat_sync[1].tool_calls # << >>

\* the invocation has seeded its transcript and has not yet asked the model
Seeded == pc = "loop" /\ iteration = 0

\* text ends with suffix
EndsWith(text, suffix) ==
    /\ StrLen(text) >= StrLen(suffix)
    /\ Drop(text, StrLen(text) - StrLen(suffix)) = suffix

\* the stripped content of every document lies in text, in the order given
RECURSIVE HoldsInOrder(_, _)
HoldsInOrder(text, documents) ==
    \/ documents = << >>
    \/ \E i \in 0..(StrLen(text) - StrLen(strip(Head(documents)))) :
         /\ Take(Drop(text, i), StrLen(strip(Head(documents)))) = strip(Head(documents))
         /\ HoldsInOrder(Drop(text, i + StrLen(strip(Head(documents)))), Tail(documents))

C29_NoWorkAfterConsumerStops ==
    [][~consuming =>
         /\ pc' = pc
         /\ token_stats' = token_stats
         /\ retry' = retry /\ sleeps' = sleeps
         /\ messages' = messages
         /\ events' = events
         /\ result' = result]_vars

\* C29 witness: the consumer stopped right after a tool_call event, before the
\* tool ran
C29_Witness ==
    /\ ~consuming
    /\ pc = "exec"
    /\ LastEvent.type = "tool_call"
    /\ Count("tool_result") = 0

\* the dispatch in progress waits for a function of the module "ssh" to return
WaitsForSynchronousTool ==
    Executing /\ ReachesSsh(mcp_manager, tool_calls_list[k].name)

\* C30: while an invocation waits for a synchronous tool function to return,
\* another invocation that has steps left can take one
C30_SynchronousToolLeavesLoopFree ==
    WaitsForSynchronousTool /\ event_loop.steps < MaxOtherSteps => ENABLED OtherStep

\* what a message is to the model backend: role, content, tool calls, id
Sent(m) == << m.role, m.content, m.tool_calls, m.tool_call_id >>

\* C31 as stated: during an invocation the transcript changes only by appends:
\* a step leaves every message already in it at its position with its role,
\* content, tool calls and tool_call_id
C31_TranscriptAppendOnly ==
    [][/\ Len(messages') >= Len(messages)
       /\ \A i \in DOMAIN messages : Sent(messages'[i]) = Sent(messages[i])]_vars

\* the top-level keys of a result, none when it is not a mapping
TopKeys(v) == IF v.t = "map" THEN [i \in DOMAIN v.items |-> v.items[i].k] ELSE << >>

\* v is a summary object: the compressed flag, a list of keys, the note
IsSummary(v, ks) ==
    /\ v.t = "map" /\ Len(v.items) = 3
    /\ v.items[1].v = JTrue
    /\ v.items[2].v.t = "list"
    /\ [i \in DOMAIN v.items[2].v.items |-> v.items[2].v.items[i].v.s] = ks
    /\ v.items[3].v.t = "str"

\* what compression does to a transcript, the keys of a summary being given
\* by Kept: nothing unless the estimate is over the budget; then the content
\* of each tool-role message estimated over the per-message threshold becomes
\* the serialised summary, and nothing else changes
CompressionFrame(before, after, Kept(_)) ==
    /\ Len(after) = Len(before)
    /\ \A i \in DOMAIN before :
         /\ after[i].role = before[i].role
         /\ after[i].tool_call_id = before[i].tool_call_id
         /\ after[i].tool_calls = before[i].tool_calls
         /\ before[i].role # "tool" => after[i] = before[i]
         /\ IF /\ SumTokens(before) > MAX_HISTORY_TOKENS
               /\ before[i].role = "tool"
               /\ estimate_tokens(before[i].content) > CompressOver
            THEN /\ IsSummary(after[i].val, Kept(before[i].val))
                 /\ after[i].content = json_dumps(after[i].val)
            ELSE after[i] = before[i]

\* the first ten entries of a list
FirstTen(ks) == SubSeq(ks, 1, IF Len(ks) < 10 THEN Len(ks) ELSE 10)

\* C32 as stated: the summary holds the top-level keys of the original result
C32_Original ==
    [][pc = "compress" => CompressionFrame(messages, messages', LAMBDA v : TopKeys(v))]_vars

\* C32: compression changes the transcript only when its estimate exceeds the
\* budget, and then replaces the content of exactly the tool-role messages
\* whose own content is estimated over the per-message threshold, by a summary
\* holding the compressed flag, the first ten top-level keys of the original
\* result (none when it is not a mapping) and a note; the number and order of
\* the messages, every role, tool_call_id and tool-call list and every system,
\* user and assistant message are unchanged
C32_CompressionFrame ==
    [][pc = "compress" =>
         CompressionFrame(messages, messages', LAMBDA v : FirstTen(TopKeys(v)))]_vars

\* C32 witness: a transcript over the budget was compressed: one tool-role
\* message became a summary of ten keys while another, estimated at the
\* per-message threshold, kept its content
C32_Witness ==
    /\ pc = "compressed"
    /\ \E i \in DOMAIN messages :
         /\ messages[i].role = "tool"
         /\ IsSummary(messages[i].val, FirstTen(TopKeys(ElevenKeys)))
    /\ \E j \in DOMAIN messages :
         /\ messages[j].role = "tool"
         /\ estimate_tokens(messages[j].content) = CompressOver

\* no counter of the later observation is below that of the earlier one
NoLess(earlier, later) ==
    /\ earlier.prompt_tokens <= later.prompt_tokens
    /\ earlier.completion_tokens <= later.completion_tokens
    /\ earlier.total_tokens <= later.total_tokens
    /\ earlier.api_calls <= later.api_calls
    /\ earlier.tool_calls <= later.tool_calls

\* the invocation has started and self.token_stats can be observed
Started == pc # "idle"

\* C34 as stated: two invocations that overlap on the one AIAgent do not
\* interfere: neither transcript holds the other's prompt, and the token_stats
\* of each invocation's complete event count that invocation's own work only:
\* as many API calls as it made model requests in its loop, as many tool calls
\* as it dispatched.
C34_InvocationsDoNotInterfere ==
    /\ \A i \in DOMAIN messages : \A j \in DOMAIN twin.messages :
         messages[i].role = "user" /\ twin.messages[j].role = "user"
            => messages[i].content # twin.messages[j].content
    /\ (pc \in {"returned", "ended"} /\ events # << >> /\ LastEvent.type = "complete")
          => /\ LastEvent.stats[1].api_calls = iteration
             /\ LastEvent.stats[1].tool_calls = Count("tool_call")
    /\ twin.pc = "done"
          => /\ twin.stats[1].api_calls = 1
             /\ twin.stats[1].tool_calls = 0

\* C33 as stated: the invocation starts from zero counters, and from then on no
\* counter of token_stats decreases from one observation to the next.
C33_CountersNeverDecrease ==
    [][/\ (~Started /\ Started') => token_stats' = ZeroStats
       /\ Started => NoLess(token_stats, token_stats')]_vars

\* C35: the iteration counter changes only at the head of the loop, by exactly
\* one per model turn, and never exceeds max_iterations; the model request of a
\* turn is the iteration-th of the invocation, so an invocation makes at most
\* max_iterations tool-enabled model requests and its transcript holds at most
\* max_iterations assistant messages with tool calls.
C35_IterationBounded ==
    [][/\ iteration' <= max_iterations
       /\ iteration' # iteration
             => iteration' = iteration + 1 /\ pc = "loop" /\ pc' = "request"
       /\ (pc = "request" /\ pc' = "stream") => token_stats'.api_calls = iteration'
       /\ token_stats'.api_calls <= max_iterations
       /\ DispatchingTurns' <= max_iterations]_vars

\* the loop was left at the cap after max_iterations turns that all dispatched
\* tools
C35_Witness ==
    /\ pc = "ended"
    /\ max_iterations = MaxIterBound
    /\ iteration = max_iterations
    /\ token_stats.api_calls = max_iterations
    /\ DispatchingTurns = max_iterations

\* C36 as stated: in every complete event total_tokens is the sum of
\* prompt_tokens and completion_tokens, the complete events of the forced
\* summary and of its fallback included.
C36_TotalIsSum ==
    \A i \in DOMAIN events :
        events[i].type = "complete"
           => events[i].stats[1].total_tokens
                = events[i].stats[1].prompt_tokens + events[i].stats[1].completion_tokens

\* the operation that returned last was a reload_service(name) of a registered,
\* loaded module whose load failed, and no other operation has begun since
FailedReloadOf(name) ==
    returned.op = "reload" /\ returned.lost = name

\* the discover step of a cycle queues a load_service for every discovered
\* module that is not registered
QueuesEveryUnregistered ==
    Running("discover") /\ mut'.todo # mut.todo =>
        { mut'.todo[j].name : j \in { i \in DOMAIN mut'.todo : mut'.todo[i].i = "load" } }
            = discover_services(files) \ Names(registry)

InvalidJson(text) == \A v \in ArgValues : json_dumps(v) # text

\* C38: a call whose argument string is not valid JSON is dispatched with the
\* empty mapping: its tool_call event carries {}, one tool_result event and one
\* tool-role message with the call's id follow, the assistant message of the
\* turn keeps the argument string as it was assembled, and no terminal event
\* has been yielded when the dispatch is over.
C38_InvalidArgumentsDispatchEmpty ==
    /\ pc = "exec" /\ InvalidJson(tool_calls_list[k].arguments) =>
          /\ arguments = JMap(<< >>)
          /\ LastEvent = ToolCallEvent(tool_calls_list[k].name, JMap(<< >>))
    /\ LastDispatched /\ InvalidJson(tool_calls_list[k - 1].arguments) =>
          LET tc == tool_calls_list[k - 1]
              turn == messages[Len(messages) - (k - 1)]
          IN /\ arguments = JMap(<< >>)
             /\ events[Len(events) - 1] = ToolCallEvent(tc.name, JMap(<< >>))
             /\ LastEvent.type = "tool_result" /\ LastEvent.tool_name = tc.name
             /\ LastMessage.role = "tool" /\ LastMessage.tool_call_id = tc.id
             /\ Count("tool_call") = Count("tool_result")
             /\ Count("tool_call") = Len(ToolMessages)
             /\ turn.role = "assistant"
             /\ turn.tool_calls[k - 1].arguments = tc.arguments
             /\ OfType(Terminal) = << >>
             /\ ~Done

\* C38 witness: shell_execute was asked for with an argument string cut short,
\* ran with no arguments and returned its result; the loop goes on
C38_Witness ==
    /\ LastDispatched /\ pc = "loop"
    /\ InvalidJson(tool_calls_list[k - 1].arguments)
    /\ tool_calls_list[k - 1].arguments # E
    /\ tool_calls_list[k - 1].name = ShellExecute
    /\ result = SmallResult(JMap(<< >>))
    /\ LastMessage.tool_call_id = tool_calls_list[k - 1].id

\* C39 as stated: the result collected without streaming lists one entry per
\* tool_call event, in emission order, with the name and arguments of that
\* event, and the entry's result is the payload of the tool_result event of
\* that same call, also when a tool name is called more than once.
C39_EntriesCarryOwnResult ==
    Done /\ pc # "failed" =>
        LET calls == OfType({"tool_call"})
            results == OfType({"tool_result"})
            tcs == chat_sync[1].tool_calls
        IN /\ Len(tcs) = Len(calls)
           /\ \A i \in DOMAIN tcs :
                 /\ tcs[i].name = calls[i].tool_name
                 /\ tcs[i].arguments = calls[i].data
                 /\ i \in DOMAIN results => tcs[i].result = results[i].data

\* C40 as stated: the ids of the tool-call requests assembled in one model turn
\* are pairwise distinct, whatever fragments the stream was made of, so the
\* tool-role messages of the turn, which carry those ids, are told apart.
C40_AssembledIdsDistinct ==
    pc = "assembled" =>
        \A i \in DOMAIN tool_calls_list : \A j \in DOMAIN tool_calls_list :
            i # j => tool_calls_list[i].id # tool_calls_list[j].id

====
